---- MODULE Spec2Model ----
(***************************************************************************)
(* The NDB scrapers of mysqld_exporter_ndb (package collector) and the     *)
(* scrape cycle that runs them.                                            *)
(*                                                                         *)
(* Every scraper is one or two fixed queries, a Scan of each result row    *)
(* into local variables and a fixed list of samples sent on the output     *)
(* channel.  The database is a set of tables; a query is evaluated by its  *)
(* FROM, WHERE and select list.  Unsigned 64-bit integers and float64      *)
(* values are kept with their width: a number is the set of the positions  *)
(* of its one bits ({1} is 2, {0,2} is 5, {49} is 2^49).                   *)
(***************************************************************************)
EXTENDS Integers, Sequences, FiniteSets, TLC

(***************************************************************************)
(* Bounds of the model.                                                    *)
(***************************************************************************)
\* rows per table
MaxRows == 2
\* scrape cycles per behaviour
MaxCycles == 2

(***************************************************************************)
(* Numbers.                                                                *)
(***************************************************************************)
\* width of Go's uint64
Uint64Width == 64
\* significand bits of Go's float64 (IEEE 754 binary64)
Float64Precision == 53
RECURSIVE Pow2(_)
Pow2(n) == IF n = 0 THEN 1 ELSE 2 * Pow2(n - 1)

\* the bit set of a natural below 2^31
Bits(n) == {i \in 0..30 : (n \div Pow2(i)) % 2 = 1}

RECURSIVE ToNat(_)
\* the natural a bit set stands for (below 2^31)
ToNat(b) ==
  IF b = {} THEN 0
  ELSE LET i == CHOOSE j \in b : TRUE IN Pow2(i) + ToNat(b \ {i})

MaxBit(b) == CHOOSE i \in b : \A j \in b : j <= i
MinBit(b) == CHOOSE i \in b : \A j \in b : i <= j

\* x >= y
Geq(x, y) ==
  LET d == (x \ y) \cup (y \ x) IN d = {} \/ MaxBit(d) \in x

RECURSIVE Add(_, _)
\* x + y, exact
Add(x, y) ==
  IF y = {} THEN x
  ELSE Add((x \ y) \cup (y \ x), {i + 1 : i \in x \cap y})

\* the low 64 bits: what a uint64 keeps of a result
Wrap64(x) == {i \in x : i < Uint64Width}

RECURSIVE SubWrap(_, _)
\* x - y modulo 2^64
SubWrap(x, y) ==
  IF y = {} THEN x
  ELSE SubWrap((x \ y) \cup (y \ x), Wrap64({i + 1 : i \in y \ x}))

RECURSIVE MulBits(_, _)
\* x * c, exact, c given by its bits
MulBits(x, c) ==
  IF c = {} THEN {}
  ELSE LET j == CHOOSE k \in c : TRUE
       IN Add({i + j : i \in x}, MulBits(x, c \ {j}))

\* x * c, exact
Mul(x, c) == MulBits(x, Bits(c))

\* Go's uint64 arithmetic
U64Sub(x, y) == SubWrap(x, y)
U64Mul(x, c) == Wrap64(Mul(x, c))

\* round to nearest, ties to even, at 53 significant bits
RoundToFloat64(x) ==
  IF x = {} \/ MaxBit(x) - MinBit(x) < Float64Precision THEN x
  ELSE LET cut  == MaxBit(x) - (Float64Precision - 1)
           kept == {i \in x : i >= cut}
           up   == (cut - 1) \in x /\ ((\E i \in x : i < cut - 1) \/ cut \in x)
       IN IF up THEN Add(kept, {cut}) ELSE kept

\* Go's float64(x) of an unsigned integer
Float64(x) == RoundToFloat64(x)
\* Go's float64 product f * float64(c)
Float64Mul(f, c) == RoundToFloat64(Mul(f, c))

(***************************************************************************)
(* Text.                                                                   *)
(***************************************************************************)
Digit == <<"0", "1", "2", "3", "4", "5", "6", "7", "8", "9">>

RECURSIVE FormatNat(_)
FormatNat(n) ==
  IF n < 10 THEN Digit[n + 1]
  ELSE FormatNat(n \div 10) \o Digit[(n % 10) + 1]

\* strconv.FormatUint(x, 10)
FormatUint(x) == FormatNat(ToNat(x))

DigitValue(c) == CHOOSE d \in 0..9 : Digit[d + 1] = c
IsDigit(c) == \E d \in 0..9 : Digit[d + 1] = c

RECURSIVE ParseNat(_, _)
ParseNat(s, acc) ==
  IF Len(s) = 0 THEN acc
  ELSE ParseNat(SubSeq(s, 2, Len(s)), 10 * acc + DigitValue(SubSeq(s, 1, 1)))

\* a parse that yields 0 for a text that is no number (a variant of
\* ParseFloat)
ParseFloatOrZero(s) ==
  IF Len(s) > 0 /\ \A i \in 1..Len(s) : IsDigit(SubSeq(s, i, i))
  THEN [err |-> FALSE, v |-> Float64(Bits(ParseNat(s, 0)))]
  ELSE [err |-> FALSE, v |-> {}]

\* strconv.ParseFloat(s, 64) on the decimal integers the text columns hold:
\* an error for the empty string and for any character that is no digit
ParseFloat(s) ==
  IF Len(s) > 0 /\ \A i \in 1..Len(s) : IsDigit(SubSeq(s, i, i))
  THEN [err |-> FALSE, v |-> Float64(Bits(ParseNat(s, 0)))]
  ELSE [err |-> TRUE, v |-> {}]

(***************************************************************************)
(* The database: column values, rows, tables and queries.                  *)
(***************************************************************************)
NullCol   == [k |-> "null"]
IntCol(b) == [k |-> "int", v |-> b]
NatCol(n) == IntCol(Bits(n))
StrCol(s) == [k |-> "str", v |-> s]
\* a DECIMAL or DOUBLE column (avg(), sum()), already the float64 it parses to
DecCol(b) == [k |-> "dec", v |-> b]

WhereAll          == [op |-> "all"]
WhereIn(c, vals)  == [op |-> "in", col |-> c, vals |-> vals]
WhereNeq(c, val)  == [op |-> "neq", col |-> c, val |-> val]

\* whether a table row satisfies a WHERE clause (a NULL column satisfies none)
Matches(w, r) ==
  CASE w.op = "all" -> TRUE
    [] w.op = "in"  -> r[w.col].k = "str" /\ r[w.col].v \in w.vals
    [] w.op = "neq" -> r[w.col].k = "str" /\ r[w.col].v # w.val

RECURSIVE Filter(_, _)
Filter(w, rows) ==
  IF rows = <<>> THEN <<>>
  ELSE (IF Matches(w, Head(rows)) THEN <<Head(rows)>> ELSE <<>>)
         \o Filter(w, Tail(rows))

\* the result set of a query: the rows of its table that satisfy WHERE, each
\* projected on the select list, in table order
Evaluate(q, tbls) ==
  LET rows == Filter(q.where, tbls[q.from])
  IN [i \in 1..Len(rows) |->
        [c \in 1..Len(q.select) |->
           LET col == rows[i][q.select[c]]
           IN IF q.select[c] \in q.ifnull /\ col = NullCol THEN StrCol("") ELSE col]]

(***************************************************************************)
(* database/sql: Rows.Scan into the destination variables.                 *)
(***************************************************************************)
ZeroValue(type) ==
  CASE type = "uint64"     -> {}
    [] type = "float64"    -> {}
    [] type = "string"     -> ""
    [] type = "NullString" -> [String |-> "", Valid |-> FALSE]
    [] type = "NullInt64"  -> [Int64 |-> {}, Valid |-> FALSE]

\* convertAssign: one column into one destination
ConvertAssign(type, col) ==
  CASE type = "uint64" ->
         IF col.k = "int" THEN [err |-> FALSE, v |-> col.v]
         ELSE [err |-> TRUE, v |-> {}]
    [] type = "float64" ->
         IF col.k = "int" THEN [err |-> FALSE, v |-> Float64(col.v)]
         ELSE IF col.k = "dec" THEN [err |-> FALSE, v |-> col.v]
         ELSE [err |-> TRUE, v |-> {}]
    [] type = "string" ->
         IF col.k = "str" THEN [err |-> FALSE, v |-> col.v]
         ELSE IF col.k = "int" THEN [err |-> FALSE, v |-> FormatUint(col.v)]
         ELSE [err |-> TRUE, v |-> ""]
    [] type = "NullString" ->
         IF col.k = "str" THEN [err |-> FALSE, v |-> [String |-> col.v, Valid |-> TRUE]]
         ELSE IF col.k = "int"
           THEN [err |-> FALSE, v |-> [String |-> FormatUint(col.v), Valid |-> TRUE]]
         ELSE IF col.k = "null"
           THEN [err |-> FALSE, v |-> [String |-> "", Valid |-> FALSE]]
         ELSE [err |-> TRUE, v |-> ZeroValue(type)]
    [] type = "NullInt64" ->
         IF col.k = "int" THEN [err |-> FALSE, v |-> [Int64 |-> col.v, Valid |-> TRUE]]
         ELSE IF col.k = "null"
           THEN [err |-> FALSE, v |-> [Int64 |-> {}, Valid |-> FALSE]]
         ELSE [err |-> TRUE, v |-> ZeroValue(type)]

RECURSIVE ScanFrom(_, _, _, _)
ScanFrom(i, dests, row, loc) ==
  IF i > Len(dests) THEN [err |-> FALSE, loc |-> loc]
  ELSE LET c == ConvertAssign(dests[i][2], row[i])
       IN IF c.err THEN [err |-> TRUE, loc |-> loc]
          ELSE ScanFrom(i + 1, dests, row, [loc EXCEPT ![dests[i][1]] = c.v])

\* Rows.Scan(dest...): an error when the number of destinations is not the
\* number of columns, or when a column does not convert
Scan(dests, row, loc) ==
  IF Len(dests) # Len(row) THEN [err |-> TRUE, loc |-> loc]
  ELSE ScanFrom(1, dests, row, loc)

(***************************************************************************)
(* prometheus: descriptors and constant metrics.                           *)
(***************************************************************************)
GaugeValue   == "gauge"
CounterValue == "counter"

\* names declared outside the scraper files
namespace         == "mysql"
informationSchema == "info_schema"
ndbinfo           == "ndbinfo"

BuildFQName(ns, subsystem, name) == ns \o "_" \o subsystem \o "_" \o name

NewDesc(fqName, variableLabels) ==
  [fqName |-> fqName, variableLabels |-> variableLabels]

\* MustNewConstMetric panics when the label values are not as many as the
\* descriptor's label names
MustNewConstMetric(desc, valueType, value, labelValues) ==
  [desc   |-> desc,
   kind   |-> valueType,
   value  |-> value,
   labels |-> labelValues,
   panic  |-> Len(labelValues) # Len(desc.variableLabels)]

\* what one pass of a row loop's body does after a successful Scan: the
\* metrics it sends, in order, and whether it then returns an error
Body(emits, err) == [emits |-> emits, err |-> err]

\* a table row: the columns cols with the values vals
Row(cols, vals) ==
  [c \in {cols[i] : i \in 1..Len(cols)} |->
     vals[CHOOSE i \in 1..Len(cols) : cols[i] = c]]

\* a query: its table, its select list, its WHERE clause and the columns the
\* select list wraps in IFNULL(c, '')
Query(from, select, where) ==
  [from |-> from, select |-> select, where |-> where, ifnull |-> {}]

(***************************************************************************)
(* info_schema_files.go                                                    *)
(***************************************************************************)
\* no comma follows FILE_NAME: FREE_EXTENTS is the alias of the column
\* FILE_NAME, and the select list has nine columns
infoSchemaFilesQuery ==
  Query("information_schema.files",
        <<"TABLESPACE_NAME", "LOGFILE_GROUP_NAME", "ENGINE", "FILE_TYPE",
          "FILE_NAME", "TOTAL_EXTENTS", "EXTENT_SIZE", "INITIAL_SIZE", "EXTRA">>,
        WhereNeq("FILE_NAME", ""))

infoSchemaFilesLabels ==
  <<"tablespace", "logfileGroup", "engine", "fileType", "fileName", "extra">>
infoSchemaTableFilesFreeExtentsDesc ==
  NewDesc(BuildFQName(namespace, informationSchema, "files_free_extents"),
          infoSchemaFilesLabels)
infoSchemaTableFilesTotalExtentsDesc ==
  NewDesc(BuildFQName(namespace, informationSchema, "files_total_extents"),
          infoSchemaFilesLabels)
infoSchemaTableFilesExtentSizeDesc ==
  NewDesc(BuildFQName(namespace, informationSchema, "files_extent_size"),
          infoSchemaFilesLabels)
infoSchemaTableFilesInitialSizeDesc ==
  NewDesc(BuildFQName(namespace, informationSchema, "files_initial_size"),
          infoSchemaFilesLabels)

ScrapeFiles ==
  [name    |-> "info_schema.files",
   version |-> 51,
   queries |-> <<infoSchemaFilesQuery>>,
   dests   |-> << << <<"tablespaceName", "NullString">>,
                     <<"logfileGroupName", "NullString">>,
                     <<"engine", "string">>, <<"fileType", "string">>,
                     <<"fileName", "string">>, <<"freeExtents", "NullInt64">>,
                     <<"totalExtents", "uint64">>, <<"extentSize", "uint64">>,
                     <<"initialSize", "uint64">>, <<"extra", "string">> >> >>]

ScrapeFilesBody(q, v) ==
  LET labels == <<v.tablespaceName.String, v.logfileGroupName.String,
                  v.engine, v.fileType, v.fileName, v.extra>>
  IN Body(
       (IF v.freeExtents.Valid
          THEN <<MustNewConstMetric(infoSchemaTableFilesFreeExtentsDesc, GaugeValue,
                                    Float64(v.freeExtents.Int64), labels)>>
          ELSE <<>>)
       \o <<MustNewConstMetric(infoSchemaTableFilesTotalExtentsDesc, GaugeValue,
                               Float64(v.totalExtents), labels),
            MustNewConstMetric(infoSchemaTableFilesExtentSizeDesc, GaugeValue,
                               Float64(v.extentSize), labels),
            MustNewConstMetric(infoSchemaTableFilesInitialSizeDesc, GaugeValue,
                               Float64(v.initialSize), labels)>>,
       FALSE)

(***************************************************************************)
(* ndbinfo_cluster_locks.go                                                *)
(***************************************************************************)
ndbinfoClusterLocksQuery ==
  Query("ndbinfo.cluster_locks",
        <<"node_id", "mode", "state", "op", "count(*)", "avg(duration_millis)">>,
        WhereAll)

\* a descriptor that declares one label less (a variant of
\* ndbinfoClusterLocksCountDesc)
clusterLocksCountDescThreeLabels ==
  NewDesc(BuildFQName("ndb", ndbinfo, "cluster_locks_count"),
          <<"nodeID", "mode", "state">>)

ndbinfoClusterLocksCountDesc ==
  NewDesc(BuildFQName("ndb", ndbinfo, "cluster_locks_count"),
          <<"nodeID", "mode", "state", "operationType">>)
ndbinfoClusterLocksAvgDurationDesc ==
  NewDesc(BuildFQName("ndb", ndbinfo, "cluster_locks_avg_duration"),
          <<"nodeID", "mode", "state", "operationType">>)

ScrapeNdbinfoClusterLocks ==
  [name    |-> "ndbinfo.cluster_locks",
   version |-> 56,
   queries |-> <<ndbinfoClusterLocksQuery>>,
   dests   |-> << << <<"nodeID", "uint64">>, <<"mode", "string">>,
                     <<"state", "string">>, <<"operation", "string">>,
                     <<"count", "uint64">>, <<"average", "float64">> >> >>]

ScrapeNdbinfoClusterLocksBody(q, v) ==
  LET labels == <<FormatUint(v.nodeID), v.mode, v.state, v.operation>>
  IN Body(<<MustNewConstMetric(ndbinfoClusterLocksCountDesc, GaugeValue,
                               Float64(v.count), labels),
            MustNewConstMetric(ndbinfoClusterLocksAvgDurationDesc, GaugeValue,
                               v.average, labels)>>,
          FALSE)

(***************************************************************************)
(* ndbinfo_logspaces.go                                                    *)
(***************************************************************************)
ndbinfoLogspacesQuery ==
  Query("ndbinfo.logspaces",
        <<"node_id", "log_type", "log_part", "total", "used">>, WhereAll)

ndbinfoLogspacesUsedDesc ==
  NewDesc(BuildFQName("ndb", ndbinfo, "logspaces_used"),
          <<"nodeID", "logType", "logPart">>)
ndbinfoLogspacesTotalDesc ==
  NewDesc(BuildFQName("ndb", ndbinfo, "logspaces_total"),
          <<"nodeID", "logType", "logPart">>)

ScrapeNdbinfoLogspaces ==
  [name    |-> "ndbinfo.logspaces",
   version |-> 56,
   queries |-> <<ndbinfoLogspacesQuery>>,
   dests   |-> << << <<"nodeID", "uint64">>, <<"logType", "string">>,
                     <<"logPart", "uint64">>, <<"total", "uint64">>,
                     <<"used", "uint64">> >> >>]

\* a loop body that sends the used metric twice (a variant of
\* ScrapeNdbinfoLogspacesBody)
ScrapeNdbinfoLogspacesBodyTwice(q, v) ==
  LET labels == <<FormatUint(v.nodeID), v.logType, FormatUint(v.logPart)>>
  IN Body(<<MustNewConstMetric(ndbinfoLogspacesUsedDesc, GaugeValue,
                               Float64(v.used), labels),
            MustNewConstMetric(ndbinfoLogspacesUsedDesc, GaugeValue,
                               Float64(v.used), labels),
            MustNewConstMetric(ndbinfoLogspacesTotalDesc, GaugeValue,
                               Float64(v.total), labels)>>,
          FALSE)

ScrapeNdbinfoLogspacesBody(q, v) ==
  LET labels == <<FormatUint(v.nodeID), v.logType, FormatUint(v.logPart)>>
  IN Body(<<MustNewConstMetric(ndbinfoLogspacesUsedDesc, GaugeValue,
                               Float64(v.used), labels),
            MustNewConstMetric(ndbinfoLogspacesTotalDesc, GaugeValue,
                               Float64(v.total), labels)>>,
          FALSE)

(***************************************************************************)
(* ndbinfo.logbuffers (src/unnamed/part_001, second file)                  *)
(***************************************************************************)
ndbinfoLogbuffersQuery ==
  Query("ndbinfo.logbuffers",
        <<"node_id", "log_type", "log_part", "total", "used">>, WhereAll)

ndbinfoLogbuffersUsedDesc ==
  NewDesc(BuildFQName("ndb", ndbinfo, "logbuffers_used"),
          <<"nodeID", "logType", "logPart">>)
ndbinfoLogbuffersTotalDesc ==
  NewDesc(BuildFQName("ndb", ndbinfo, "logbuffers_total"),
          <<"nodeID", "logType", "logPart">>)

ScrapeNdbinfoLogbuffers ==
  [name    |-> "ndbinfo.logbuffers",
   version |-> 56,
   queries |-> <<ndbinfoLogbuffersQuery>>,
   dests   |-> << << <<"nodeID", "uint64">>, <<"logType", "string">>,
                     <<"logPart", "uint64">>, <<"total", "uint64">>,
                     <<"used", "uint64">> >> >>]

ScrapeNdbinfoLogbuffersBody(q, v) ==
  LET labels == <<FormatUint(v.nodeID), v.logType, FormatUint(v.logPart)>>
  IN Body(<<MustNewConstMetric(ndbinfoLogbuffersUsedDesc, GaugeValue,
                               Float64(v.used), labels),
            MustNewConstMetric(ndbinfoLogbuffersTotalDesc, GaugeValue,
                               Float64(v.total), labels)>>,
          FALSE)

(***************************************************************************)
(* ndbinfo_cluster_operations.go                                           *)
(***************************************************************************)
ndbinfoClusterOperationsQuery ==
  [Query("ndbinfo.cluster_operations",
         <<"node_id", "operation_type", "state", "count(*)">>, WhereAll)
     EXCEPT !.ifnull = {"state"}]

ndbinfoClusterOperationsDesc ==
  NewDesc(BuildFQName("ndb", ndbinfo, "cluster_operations"),
          <<"nodeID", "operationType", "state">>)

ScrapeNdbinfoClusterOperations ==
  [name    |-> "ndbinfo.cluster_operations",
   version |-> 56,
   queries |-> <<ndbinfoClusterOperationsQuery>>,
   dests   |-> << << <<"nodeID", "uint64">>, <<"operationType", "string">>,
                     <<"state", "string">>, <<"count", "uint64">> >> >>]

ScrapeNdbinfoClusterOperationsBody(q, v) ==
  Body(<<MustNewConstMetric(ndbinfoClusterOperationsDesc, GaugeValue,
                            Float64(v.count),
                            <<FormatUint(v.nodeID), v.operationType, v.state>>)>>,
       FALSE)

(***************************************************************************)
(* ndbinfo_cluster_transactions.go                                         *)
(***************************************************************************)
ndbinfoClusterTransactionsQuery ==
  Query("ndbinfo.cluster_transactions", <<"node_id", "state", "cnt">>, WhereAll)

ndbinfoClusterTransactionsDesc ==
  NewDesc(BuildFQName("ndb", ndbinfo, "cluster_transactions"),
          <<"nodeID", "state">>)

ScrapeNdbinfoClusterTransactions ==
  [name    |-> "ndbinfo.cluster_transactions",
   version |-> 56,
   queries |-> <<ndbinfoClusterTransactionsQuery>>,
   dests   |-> << << <<"nodeID", "uint64">>, <<"state", "string">>,
                     <<"count", "uint64">> >> >>]

ScrapeNdbinfoClusterTransactionsBody(q, v) ==
  Body(<<MustNewConstMetric(ndbinfoClusterTransactionsDesc, GaugeValue,
                            Float64(v.count),
                            <<FormatUint(v.nodeID), v.state>>)>>,
       FALSE)

(***************************************************************************)
(* ndbinfo_counters_spj.go                                                 *)
(***************************************************************************)
\* the rows of ndbinfo.counters with block_name = "DBSPJ", grouped
ndbinfoCountersSPJQuery ==
  Query("ndbinfo.counters", <<"node_id", "counter_name", "sum(val)">>, WhereAll)

ndbinfoCountersSPJDesc ==
  NewDesc(BuildFQName("ndb", ndbinfo, "spj_counter"), <<"nodeID", "counterName">>)

ScrapeNdbinfoCountersSPJ ==
  [name    |-> "ndbinfo.counters.spj",
   version |-> 56,
   queries |-> <<ndbinfoCountersSPJQuery>>,
   dests   |-> << << <<"nodeID", "uint64">>, <<"counter_name", "string">>,
                     <<"val", "uint64">> >> >>]

ScrapeNdbinfoCountersSPJBody(q, v) ==
  Body(<<MustNewConstMetric(ndbinfoCountersSPJDesc, GaugeValue, Float64(v.val),
                            <<FormatUint(v.nodeID), v.counter_name>>)>>,
       FALSE)

(***************************************************************************)
(* ndbinfo.processes (src/unnamed/part_000)                                *)
(***************************************************************************)
ndbinfoProcessesQuery ==
  Query("ndbinfo.processes", <<"node_type", "process_name", "count(*)">>, WhereAll)

ndbinfoProcessesCountDesc ==
  NewDesc(BuildFQName("ndb", ndbinfo, "processes"), <<"nodeType", "processName">>)

ScrapeNdbinfoProcesses ==
  [name    |-> "ndbinfo.processes",
   version |-> 56,
   queries |-> <<ndbinfoProcessesQuery>>,
   dests   |-> << << <<"nodeType", "string">>, <<"processName", "string">>,
                     <<"count", "uint64">> >> >>]

ScrapeNdbinfoProcessesBody(q, v) ==
  Body(<<MustNewConstMetric(ndbinfoProcessesCountDesc, GaugeValue, Float64(v.count),
                            <<v.nodeType, v.processName>>)>>,
       FALSE)

(***************************************************************************)
(* ndbinfo.memoryusage (src/unnamed/part_002)                              *)
(***************************************************************************)
ndbinfoMemoryusageQuery ==
  Query("ndbinfo.memoryusage",
        <<"node_id", "memory_type", "used", "used_pages", "total", "total_pages">>,
        WhereAll)

ndbinfoMemoryusageUsedDesc ==
  NewDesc(BuildFQName("ndb", ndbinfo, "memory_used"), <<"nodeID", "memoryType">>)
ndbinfoMemoryusageTotalDesc ==
  NewDesc(BuildFQName("ndb", ndbinfo, "memory_total"), <<"nodeID", "memoryType">>)
ndbinfoMemoryusagePagesDesc ==
  NewDesc(BuildFQName("ndb", ndbinfo, "memory_pages"), <<"nodeID", "memoryType">>)
ndbinfoMemoryusageTotalPagesDesc ==
  NewDesc(BuildFQName("ndb", ndbinfo, "memory_total_pages"),
          <<"nodeID", "memoryType">>)

ScrapeNdbinfoMemoryusage ==
  [name    |-> "ndbinfo.memoryusage",
   version |-> 56,
   queries |-> <<ndbinfoMemoryusageQuery>>,
   dests   |-> << << <<"nodeID", "uint64">>, <<"memoryType", "string">>,
                     <<"used", "uint64">>, <<"usedPages", "uint64">>,
                     <<"total", "uint64">>, <<"totalPages", "uint64">> >> >>]

\* a loop body that sends the page counts before the byte counts (a variant
\* of ScrapeNdbinfoMemoryusageBody)
ScrapeNdbinfoMemoryusageBodyPagesFirst(q, v) ==
  LET labels == <<FormatUint(v.nodeID), v.memoryType>>
  IN Body(<<MustNewConstMetric(ndbinfoMemoryusagePagesDesc, GaugeValue,
                               Float64(v.usedPages), labels),
            MustNewConstMetric(ndbinfoMemoryusageTotalPagesDesc, GaugeValue,
                               Float64(v.totalPages), labels),
            MustNewConstMetric(ndbinfoMemoryusageUsedDesc, GaugeValue,
                               Float64(v.used), labels),
            MustNewConstMetric(ndbinfoMemoryusageTotalDesc, GaugeValue,
                               Float64(v.total), labels)>>,
          FALSE)

ScrapeNdbinfoMemoryusageBody(q, v) ==
  LET labels == <<FormatUint(v.nodeID), v.memoryType>>
  IN Body(<<MustNewConstMetric(ndbinfoMemoryusageUsedDesc, GaugeValue,
                               Float64(v.used), labels),
            MustNewConstMetric(ndbinfoMemoryusageTotalDesc, GaugeValue,
                               Float64(v.total), labels),
            MustNewConstMetric(ndbinfoMemoryusagePagesDesc, GaugeValue,
                               Float64(v.usedPages), labels),
            MustNewConstMetric(ndbinfoMemoryusageTotalPagesDesc, GaugeValue,
                               Float64(v.totalPages), labels)>>,
          FALSE)

(***************************************************************************)
(* ndbinfo_resources.go                                                    *)
(***************************************************************************)
ndbinfoResourcesQuery ==
  Query("ndbinfo.resources",
        <<"node_id", "resource_name", "reserved", "used">>, WhereAll)

\* ndbinfo_free_resources.go; ScrapeNdbinfoResources runs this query too (its
\* own ndbinfoLongSignalQuery is declared and never used)
ndbinfoLongSignalMemoryQuery ==
  Query("ndbinfo.memoryusage", <<"node_id", "used_pages", "total_pages">>,
        WhereIn("memory_type", {"Long message buffer"}))

ndbinfoResourcesReservedDesc ==
  NewDesc(BuildFQName("ndb", ndbinfo, "memory_resource_reserved"),
          <<"nodeID", "memoryType">>)
ndbinfoResourcesUsedDesc ==
  NewDesc(BuildFQName("ndb", ndbinfo, "memory_resource_used"),
          <<"nodeID", "memoryType">>)

\* bytes of a page of ndbinfo.resources
ResourcePageBytes == 32768
\* bytes of a page of the long message buffer
LongSignalPageBytes == 256

ScrapeNdbinfoResources ==
  [name    |-> "ndbinfo.resources",
   version |-> 57,
   queries |-> <<ndbinfoResourcesQuery, ndbinfoLongSignalMemoryQuery>>,
   dests   |-> << << <<"nodeID", "uint64">>, <<"memoryType", "string">>,
                     <<"reserved", "uint64">>, <<"used", "uint64">> >>,
                  << <<"nodeID", "uint64">>, <<"used_pages", "uint64">>,
                     <<"total_pages", "uint64">> >> >>]

ScrapeNdbinfoResourcesBody(q, v) ==
  IF q = 1
  THEN LET reserved_bytes == U64Mul(v.reserved, ResourcePageBytes)
           used_bytes     == U64Mul(v.used, ResourcePageBytes)
       IN Body(<<MustNewConstMetric(ndbinfoResourcesReservedDesc, GaugeValue,
                                    Float64(reserved_bytes),
                                    <<FormatUint(v.nodeID), v.memoryType>>),
                 MustNewConstMetric(ndbinfoResourcesUsedDesc, GaugeValue,
                                    Float64(used_bytes),
                                    <<FormatUint(v.nodeID), v.memoryType>>)>>,
               FALSE)
  ELSE LET total_bytes == U64Mul(v.total_pages, LongSignalPageBytes)
           used_bytes  == U64Mul(v.used_pages, LongSignalPageBytes)
       IN Body(<<MustNewConstMetric(ndbinfoResourcesReservedDesc, GaugeValue,
                                    Float64(total_bytes),
                                    <<FormatUint(v.nodeID), "LONG_SIGNAL_MEMORY">>),
                 MustNewConstMetric(ndbinfoResourcesUsedDesc, GaugeValue,
                                    Float64(used_bytes),
                                    <<FormatUint(v.nodeID), "LONG_SIGNAL_MEMORY">>)>>,
               FALSE)

(***************************************************************************)
(* ndbinfo_free_resources.go                                               *)
(***************************************************************************)
ndbinfoFreeMemoryQuery ==
  Query("ndbinfo.resources",
        <<"node_id", "resource_name", "reserved", "used">>,
        WhereIn("resource_name",
                {"TRANSACTION_MEMORY", "JOBBUFFER", "DATA_MEMORY",
                 "TOTAL_GLOBAL_MEMORY", "SCHEMA_TRANS_MEMORY"}))

ndbinfoFreeMemoryDesc ==
  NewDesc(BuildFQName("ndb", ndbinfo, "free_memory"), <<"nodeID", "memoryType">>)

ScrapeNdbinfoFreeMemory ==
  [name    |-> "ndbinfo.resources.free",
   version |-> 57,
   queries |-> <<ndbinfoFreeMemoryQuery, ndbinfoLongSignalMemoryQuery>>,
   dests   |-> << << <<"nodeID", "uint64">>, <<"memoryType", "string">>,
                     <<"reserved", "uint64">>, <<"used", "uint64">> >>,
                  << <<"nodeID", "uint64">>, <<"used_pages", "uint64">>,
                     <<"total_pages", "uint64">> >> >>]

\* the subtraction without the clamp (a variant of FreePages)
FreePagesUnclamped(a, b) == U64Sub(a, b)

\* if a >= b { free = a - b } else { free = 0 }
FreePages(a, b) == IF Geq(a, b) THEN U64Sub(a, b) ELSE {}

ScrapeNdbinfoFreeMemoryBody(q, v) ==
  IF q = 1
  THEN LET free   == FreePages(v.reserved, v.used)
           free64 == Float64Mul(Float64(free), ResourcePageBytes)
       IN Body(<<MustNewConstMetric(ndbinfoFreeMemoryDesc, GaugeValue, free64,
                                    <<FormatUint(v.nodeID), v.memoryType>>)>>,
               FALSE)
  ELSE LET free   == FreePages(v.total_pages, v.used_pages)
           free64 == Float64Mul(Float64(free), LongSignalPageBytes)
       IN Body(<<MustNewConstMetric(ndbinfoFreeMemoryDesc, GaugeValue, free64,
                                    <<FormatUint(v.nodeID), "LONG_SIGNAL_MEMORY">>)>>,
               FALSE)

(***************************************************************************)
(* ndbinfo.transporters (src/unnamed/part_003)                             *)
(***************************************************************************)
ndbinfoTransportersQuery ==
  Query("ndbinfo.transporters",
        <<"node_id", "remote_node_id", "bytes_sent", "bytes_received", "connect_count", "overloaded", "overload_count", "slowdown", "slowdown_count">>,
        WhereAll)

ndbinfoTransportersBytesSentDesc ==
  NewDesc(BuildFQName("ndb", ndbinfo, "transporters_bytes_sent"),
          <<"nodeID", "remoteNodeID">>)
ndbinfoTransportersBytesReceivedDesc ==
  NewDesc(BuildFQName("ndb", ndbinfo, "transporters_bytes_received"),
          <<"nodeID", "remoteNodeID">>)
ndbinfoTransportersConnectionCountDesc ==
  NewDesc(BuildFQName("ndb", ndbinfo, "transporters_connection_count"),
          <<"nodeID", "remoteNodeID">>)
ndbinfoTransportersOverloadedDesc ==
  NewDesc(BuildFQName("ndb", ndbinfo, "transporters_overloaded"),
          <<"nodeID", "remoteNodeID">>)
ndbinfoTransportersOverloadedCountDesc ==
  NewDesc(BuildFQName("ndb", ndbinfo, "transporters_overloaded_count"),
          <<"nodeID", "remoteNodeID">>)
ndbinfoTransportersSlowdownDesc ==
  NewDesc(BuildFQName("ndb", ndbinfo, "transporters_slowdown"),
          <<"nodeID", "remoteNodeID">>)
ndbinfoTransportersSlowdownCountDesc ==
  NewDesc(BuildFQName("ndb", ndbinfo, "transporters_slowdown_count"),
          <<"nodeID", "remoteNodeID">>)

ScrapeNdbinfoTransporters ==
  [name    |-> "ndbinfo.transporters",
   version |-> 56,
   queries |-> <<ndbinfoTransportersQuery>>,
   dests   |-> << << <<"nodeID", "uint64">>,
                     <<"remoteNodeID", "uint64">>,
                     <<"bytesSent", "uint64">>,
                     <<"bytesReceived", "uint64">>,
                     <<"connectionCount", "uint64">>,
                     <<"overloaded", "uint64">>,
                     <<"overloadedCount", "uint64">>,
                     <<"slowdown", "uint64">>,
                     <<"slowdownCount", "uint64">> >> >>]

ScrapeNdbinfoTransportersBody(q, v) ==
  LET labels == <<FormatUint(v.nodeID), FormatUint(v.remoteNodeID)>>
  IN Body(<<MustNewConstMetric(ndbinfoTransportersBytesSentDesc, CounterValue,
                               Float64(v.bytesSent), labels),
            MustNewConstMetric(ndbinfoTransportersBytesReceivedDesc, CounterValue,
                               Float64(v.bytesReceived), labels),
            MustNewConstMetric(ndbinfoTransportersConnectionCountDesc, CounterValue,
                               Float64(v.connectionCount), labels),
            MustNewConstMetric(ndbinfoTransportersOverloadedDesc, GaugeValue,
                               Float64(v.overloaded), labels),
            MustNewConstMetric(ndbinfoTransportersOverloadedCountDesc, CounterValue,
                               Float64(v.overloadedCount), labels),
            MustNewConstMetric(ndbinfoTransportersSlowdownDesc, CounterValue,
                               Float64(v.slowdown), labels),
            MustNewConstMetric(ndbinfoTransportersSlowdownCountDesc, CounterValue,
                               Float64(v.slowdownCount), labels)>>,
          FALSE)

(***************************************************************************)
(* ndbinfo_diskpagebuffers.go                                              *)
(***************************************************************************)
ndbinfoDiskpagebuffersQuery ==
  Query("ndbinfo.diskpagebuffer",
        <<"node_id", "block_instance", "pages_written", "pages_written_lcp", "pages_read", "log_waits", "page_requests_direct_return", "page_requests_wait_queue", "page_requests_wait_io">>,
        WhereAll)

ndbinfoDiskpagebuffersPagesWrittenDesc ==
  NewDesc(BuildFQName("ndb", ndbinfo, "diskpagebuffer_pages_written"),
          <<"nodeID", "threadNO">>)
ndbinfoDiskpagebuffersPagesWrittenLcpDesc ==
  NewDesc(BuildFQName("ndb", ndbinfo, "diskpagebuffer_pages_written_lcp"),
          <<"nodeID", "threadNO">>)
ndbinfoDiskpagebuffersPagesReadDesc ==
  NewDesc(BuildFQName("ndb", ndbinfo, "diskpagebuffer_pages_read"),
          <<"nodeID", "threadNO">>)
ndbinfoDiskpagebuffersLogWaitsDesc ==
  NewDesc(BuildFQName("ndb", ndbinfo, "diskpagebuffer_log_waits"),
          <<"nodeID", "threadNO">>)
ndbinfoDiskpagebuffersDirectDesc ==
  NewDesc(BuildFQName("ndb", ndbinfo, "diskpagebuffer_direct_return"),
          <<"nodeID", "threadNO">>)
ndbinfoDiskpagebuffersQueueDesc ==
  NewDesc(BuildFQName("ndb", ndbinfo, "diskpagebuffer_wait_queue"),
          <<"nodeID", "threadNO">>)
ndbinfoDiskpagebuffersIODesc ==
  NewDesc(BuildFQName("ndb", ndbinfo, "diskpagebuffer_wait_io"),
          <<"nodeID", "threadNO">>)

ScrapeNdbinfoDiskpagebuffers ==
  [name    |-> "ndbinfo.diskpagebuffers",
   version |-> 56,
   queries |-> <<ndbinfoDiskpagebuffersQuery>>,
   dests   |-> << << <<"nodeID", "uint64">>,
                     <<"threadNO", "uint64">>,
                     <<"pagesWritten", "uint64">>,
                     <<"pagesWrittenLcp", "uint64">>,
                     <<"pagesRead", "uint64">>,
                     <<"logWaits", "uint64">>,
                     <<"pageRequestsDirectReturn", "uint64">>,
                     <<"pageRequestsWaitQueue", "uint64">>,
                     <<"pageRequestsWaitIO", "uint64">> >> >>]

ScrapeNdbinfoDiskpagebuffersBody(q, v) ==
  LET labels == <<FormatUint(v.nodeID), FormatUint(v.threadNO)>>
  IN Body(<<MustNewConstMetric(ndbinfoDiskpagebuffersPagesWrittenDesc, CounterValue,
                               Float64(v.pagesWritten), labels),
            MustNewConstMetric(ndbinfoDiskpagebuffersPagesWrittenLcpDesc, CounterValue,
                               Float64(v.pagesWrittenLcp), labels),
            MustNewConstMetric(ndbinfoDiskpagebuffersPagesReadDesc, CounterValue,
                               Float64(v.pagesRead), labels),
            MustNewConstMetric(ndbinfoDiskpagebuffersLogWaitsDesc, CounterValue,
                               Float64(v.logWaits), labels),
            MustNewConstMetric(ndbinfoDiskpagebuffersDirectDesc, CounterValue,
                               Float64(v.pageRequestsDirectReturn), labels),
            MustNewConstMetric(ndbinfoDiskpagebuffersQueueDesc, CounterValue,
                               Float64(v.pageRequestsWaitQueue), labels),
            MustNewConstMetric(ndbinfoDiskpagebuffersIODesc, CounterValue,
                               Float64(v.pageRequestsWaitIO), labels)>>,
          FALSE)

(***************************************************************************)
(* ndbinfo_disk_write_speed_aggregate.go                                   *)
(***************************************************************************)
ndbinfoDiskWriteSpeedAggregateQuery ==
  Query("ndbinfo.disk_write_speed_aggregate",
        <<"node_id", "thr_no", "backup_lcp_speed_last_10sec", "redo_speed_last_10sec", "slowdowns_due_to_io_lag", "slowdowns_due_to_high_cpu">>,
        WhereAll)

ndbinfoDiskWriteSpeedAggregateLcpDesc ==
  NewDesc(BuildFQName("ndb", ndbinfo, "disk_write_speed_lcp"),
          <<"nodeID", "threadNO">>)
ndbinfoDiskWriteSpeedAggregateRedoDesc ==
  NewDesc(BuildFQName("ndb", ndbinfo, "disk_write_speed_redo"),
          <<"nodeID", "threadNO">>)
ndbinfoDiskWriteSpeedAggregateIOSlowdownDesc ==
  NewDesc(BuildFQName("ndb", ndbinfo, "disk_write_speed_io_slowdown"),
          <<"nodeID", "threadNO">>)
ndbinfoDiskWriteSpeedAggregateCPUSlowdownDesc ==
  NewDesc(BuildFQName("ndb", ndbinfo, "disk_write_speed_cpu_slowdown"),
          <<"nodeID", "threadNO">>)

ScrapeNdbinfoDiskWriteSpeedAggregate ==
  [name    |-> "ndbinfo.disk_write_speed_aggregate",
   version |-> 56,
   queries |-> <<ndbinfoDiskWriteSpeedAggregateQuery>>,
   dests   |-> << << <<"nodeID", "uint64">>,
                     <<"threadNO", "uint64">>,
                     <<"lcpWrite", "uint64">>,
                     <<"redoWrite", "uint64">>,
                     <<"slowdownIO", "uint64">>,
                     <<"slowdownCPU", "uint64">> >> >>]

ScrapeNdbinfoDiskWriteSpeedAggregateBody(q, v) ==
  LET labels == <<FormatUint(v.nodeID), FormatUint(v.threadNO)>>
  IN Body(<<MustNewConstMetric(ndbinfoDiskWriteSpeedAggregateLcpDesc, GaugeValue,
                               Float64(v.lcpWrite), labels),
            MustNewConstMetric(ndbinfoDiskWriteSpeedAggregateRedoDesc, GaugeValue,
                               Float64(v.redoWrite), labels),
            MustNewConstMetric(ndbinfoDiskWriteSpeedAggregateIOSlowdownDesc, CounterValue,
                               Float64(v.slowdownIO), labels),
            MustNewConstMetric(ndbinfoDiskWriteSpeedAggregateCPUSlowdownDesc, CounterValue,
                               Float64(v.slowdownCPU), labels)>>,
          FALSE)

(***************************************************************************)
(* ndbinfo.pgman_time_track_stats (src/unnamed/part_001, first file)       *)
(***************************************************************************)
ndbinfoPgmanTimeTrackQuery ==
  Query("ndbinfo.pgman_time_track_stats",
        <<"node_id", "upper_bound", "sum(page_reads)", "sum(page_writes)", "sum(log_waits)", "sum(get_page)">>,
        WhereAll)

ndbinfoPgmanTimeTrackPageReadsDesc ==
  NewDesc(BuildFQName("ndb", ndbinfo, "pgman_time_track_page_reads"),
          <<"nodeID", "upperBound">>)
ndbinfoPgmanTimeTrackPageWritesDesc ==
  NewDesc(BuildFQName("ndb", ndbinfo, "pgman_time_track_page_writes"),
          <<"nodeID", "upperBound">>)
ndbinfoPgmanTimeTrackLogWaitsDesc ==
  NewDesc(BuildFQName("ndb", ndbinfo, "pgman_time_track_log_waits"),
          <<"nodeID", "upperBound">>)
ndbinfoPgmanTimeTrackGetPageDesc ==
  NewDesc(BuildFQName("ndb", ndbinfo, "pgman_time_track_get_page"),
          <<"nodeID", "upperBound">>)

ScrapeNdbinfoPgmanTimeTrack ==
  [name    |-> "ndbinfo.pgman_time_track_stats",
   version |-> 57,
   queries |-> <<ndbinfoPgmanTimeTrackQuery>>,
   dests   |-> << << <<"nodeID", "uint64">>,
                     <<"upper_bound", "uint64">>,
                     <<"page_reads", "uint64">>,
                     <<"page_writes", "uint64">>,
                     <<"log_waits", "uint64">>,
                     <<"get_page", "float64">> >> >>]

ScrapeNdbinfoPgmanTimeTrackBody(q, v) ==
  LET labels == <<FormatUint(v.nodeID), FormatUint(v.upper_bound)>>
  IN Body(<<MustNewConstMetric(ndbinfoPgmanTimeTrackPageReadsDesc, GaugeValue,
                               Float64(v.page_reads), labels),
            MustNewConstMetric(ndbinfoPgmanTimeTrackPageWritesDesc, GaugeValue,
                               Float64(v.page_writes), labels),
            MustNewConstMetric(ndbinfoPgmanTimeTrackLogWaitsDesc, GaugeValue,
                               Float64(v.log_waits), labels),
            MustNewConstMetric(ndbinfoPgmanTimeTrackGetPageDesc, GaugeValue,
                               v.get_page, labels)>>,
          FALSE)

(***************************************************************************)
(* ndbinfo.tc_time_track_stats (src/unnamed/part_005)                      *)
(***************************************************************************)
ndbinfoTcTimeTrackQuery ==
  Query("ndbinfo.tc_time_track_stats",
        <<"node_id", "upper_bound", "sum(scans)", "sum(transactions)", "sum(read_key_ops)", "sum(write_key_ops)", "sum(index_key_ops)">>,
        WhereAll)

ndbinfoTcTimeTrackScansDesc ==
  NewDesc(BuildFQName("ndb", ndbinfo, "tc_time_track_scans"),
          <<"nodeID", "upperBound">>)
ndbinfoTcTimeTrackTransactionsDesc ==
  NewDesc(BuildFQName("ndb", ndbinfo, "tc_time_track_transactions"),
          <<"nodeID", "upperBound">>)
ndbinfoTcTimeTrackReadKeyDesc ==
  NewDesc(BuildFQName("ndb", ndbinfo, "tc_time_track_read_key"),
          <<"nodeID", "upperBound">>)
ndbinfoTcTimeTrackWriteKeyDesc ==
  NewDesc(BuildFQName("ndb", ndbinfo, "tc_time_track_write_key"),
          <<"nodeID", "upperBound">>)
ndbinfoTcTimeTrackIndexKeyDesc ==
  NewDesc(BuildFQName("ndb", ndbinfo, "tc_time_track_index_key"),
          <<"nodeID", "upperBound">>)

ScrapeNdbinfoTcTimeTrack ==
  [name    |-> "ndbinfo.tc_time_track_stats",
   version |-> 57,
   queries |-> <<ndbinfoTcTimeTrackQuery>>,
   dests   |-> << << <<"nodeID", "uint64">>,
                     <<"upper_bound", "uint64">>,
                     <<"scans", "uint64">>,
                     <<"transactions", "uint64">>,
                     <<"read_key_ops", "uint64">>,
                     <<"write_key_ops", "uint64">>,
                     <<"index_key_ops", "uint64">> >> >>]

ScrapeNdbinfoTcTimeTrackBody(q, v) ==
  LET labels == <<FormatUint(v.nodeID), FormatUint(v.upper_bound)>>
  IN Body(<<MustNewConstMetric(ndbinfoTcTimeTrackScansDesc, GaugeValue,
                               Float64(v.scans), labels),
            MustNewConstMetric(ndbinfoTcTimeTrackTransactionsDesc, GaugeValue,
                               Float64(v.transactions), labels),
            MustNewConstMetric(ndbinfoTcTimeTrackReadKeyDesc, GaugeValue,
                               Float64(v.read_key_ops), labels),
            MustNewConstMetric(ndbinfoTcTimeTrackWriteKeyDesc, GaugeValue,
                               Float64(v.write_key_ops), labels),
            MustNewConstMetric(ndbinfoTcTimeTrackIndexKeyDesc, GaugeValue,
                               Float64(v.index_key_ops), labels)>>,
          FALSE)

(***************************************************************************)
(* ndbinfo.threadstat (src/unnamed/part_004)                               *)
(***************************************************************************)
ndbinfoThreadstatQuery ==
  Query("ndbinfo.threadstat",
        <<"node_id", "thr_no", "thr_nm", "c_loop", "c_exec", "c_wait", "os_tid",
          "os_now", "os_ru_utime", "os_ru_stime", "os_ru_minflt", "os_ru_majflt",
          "os_ru_nvcsw", "os_ru_nivcsw">>,
        WhereAll)

ndbinfoThreadstatLoopsDesc ==
  NewDesc(BuildFQName("ndb", ndbinfo, "threadstat_loop"),
          <<"nodeID", "threadNO", "threadName">>)
ndbinfoThreadstatExecDesc ==
  NewDesc(BuildFQName("ndb", ndbinfo, "threadstat_exec"),
          <<"nodeID", "threadNO", "threadName">>)
ndbinfoThreadstatWaitDesc ==
  NewDesc(BuildFQName("ndb", ndbinfo, "threadstat_wait"),
          <<"nodeID", "threadNO", "threadName">>)
ndbinfoThreadstatOSTimeDesc ==
  NewDesc(BuildFQName("ndb", ndbinfo, "threadstat_os_time"),
          <<"nodeID", "threadNO", "threadName">>)
ndbinfoThreadstatOSUserTimeDesc ==
  NewDesc(BuildFQName("ndb", ndbinfo, "threadstat_user_time"),
          <<"nodeID", "threadNO", "threadName">>)
ndbinfoThreadstatOSSystemTimeDesc ==
  NewDesc(BuildFQName("ndb", ndbinfo, "threadstat_system_time"),
          <<"nodeID", "threadNO", "threadName">>)
ndbinfoThreadstatSoftPageFaultsDesc ==
  NewDesc(BuildFQName("ndb", ndbinfo, "threadstat_soft_pagfault"),
          <<"nodeID", "threadNO", "threadName">>)
ndbinfoThreadstatHardPageFaultsDesc ==
  NewDesc(BuildFQName("ndb", ndbinfo, "threadstat_hard_pagfault"),
          <<"nodeID", "threadNO", "threadName">>)
ndbinfoThreadstatVoluntaryCtxSwitchDesc ==
  NewDesc(BuildFQName("ndb", ndbinfo, "threadstat_ctx_switch_voluntary"),
          <<"nodeID", "threadNO", "threadName">>)
ndbinfoThreadstatInvoluntaryCtxSwitchDesc ==
  NewDesc(BuildFQName("ndb", ndbinfo, "threadstat_ctx_switch_involuntary"),
          <<"nodeID", "threadNO", "threadName">>)

ScrapeNdbinfoThreadstat ==
  [name    |-> "ndbinfo.threadstat",
   version |-> 56,
   queries |-> <<ndbinfoThreadstatQuery>>,
   dests   |-> << << <<"nodeID", "uint64">>, <<"threadNO", "uint64">>,
                     <<"threadName", "string">>, <<"loopCounter", "string">>,
                     <<"signalCounter", "string">>, <<"waitingCounter", "string">>,
                     <<"OSthreadNO", "uint64">>, <<"OSTime", "uint64">>,
                     <<"OSUserTime", "uint64">>, <<"OSSystemTime", "uint64">>,
                     <<"softPageFaults", "uint64">>, <<"hardPageFaults", "uint64">>,
                     <<"voluntaryCtxSwitch", "uint64">>,
                     <<"involuntaryContextSwitch", "uint64">> >> >>]

\* each of the three text counters is parsed right before its metric is sent: a
\* parse error returns after the metrics sent so far for the row
ScrapeNdbinfoThreadstatBody(q, v) ==
  LET labels == <<FormatUint(v.nodeID), FormatUint(v.threadNO), v.threadName>>
      loopCounterFloat    == ParseFloat(v.loopCounter)
      signalCounterFloat  == ParseFloat(v.signalCounter)
      waitingCounterFloat == ParseFloat(v.waitingCounter)
      loops == MustNewConstMetric(ndbinfoThreadstatLoopsDesc, CounterValue,
                                  loopCounterFloat.v, labels)
      exec  == MustNewConstMetric(ndbinfoThreadstatExecDesc, CounterValue,
                                  signalCounterFloat.v, labels)
      wait  == MustNewConstMetric(ndbinfoThreadstatWaitDesc, CounterValue,
                                  waitingCounterFloat.v, labels)
  IN IF loopCounterFloat.err THEN Body(<<>>, TRUE)
     ELSE IF signalCounterFloat.err THEN Body(<<loops>>, TRUE)
     ELSE IF waitingCounterFloat.err THEN Body(<<loops, exec>>, TRUE)
     ELSE Body(<<loops, exec, wait,
                 MustNewConstMetric(ndbinfoThreadstatOSTimeDesc, CounterValue,
                                    Float64(v.OSTime), labels),
                 MustNewConstMetric(ndbinfoThreadstatOSUserTimeDesc, CounterValue,
                                    Float64(v.OSUserTime), labels),
                 MustNewConstMetric(ndbinfoThreadstatOSSystemTimeDesc, CounterValue,
                                    Float64(v.OSSystemTime), labels),
                 MustNewConstMetric(ndbinfoThreadstatSoftPageFaultsDesc, CounterValue,
                                    Float64(v.softPageFaults), labels),
                 MustNewConstMetric(ndbinfoThreadstatHardPageFaultsDesc, CounterValue,
                                    Float64(v.hardPageFaults), labels),
                 MustNewConstMetric(ndbinfoThreadstatVoluntaryCtxSwitchDesc,
                                    CounterValue, Float64(v.voluntaryCtxSwitch), labels),
                 MustNewConstMetric(ndbinfoThreadstatInvoluntaryCtxSwitchDesc,
                                    CounterValue, Float64(v.involuntaryContextSwitch),
                                    labels)>>,
               FALSE)

(***************************************************************************)
(* The scrapers of the package, by type.                                   *)
(***************************************************************************)
ScraperTypes ==
  {"ScrapeFiles", "ScrapeNdbinfoClusterLocks", "ScrapeNdbinfoLogspaces",
   "ScrapeNdbinfoLogbuffers", "ScrapeNdbinfoClusterOperations",
   "ScrapeNdbinfoClusterTransactions", "ScrapeNdbinfoCountersSPJ",
   "ScrapeNdbinfoProcesses", "ScrapeNdbinfoMemoryusage", "ScrapeNdbinfoResources",
   "ScrapeNdbinfoFreeMemory", "ScrapeNdbinfoTransporters",
   "ScrapeNdbinfoDiskpagebuffers", "ScrapeNdbinfoDiskWriteSpeedAggregate",
   "ScrapeNdbinfoPgmanTimeTrack", "ScrapeNdbinfoTcTimeTrack",
   "ScrapeNdbinfoThreadstat"}

Scraper(t) ==
  CASE t = "ScrapeFiles" -> ScrapeFiles
    [] t = "ScrapeNdbinfoClusterLocks" -> ScrapeNdbinfoClusterLocks
    [] t = "ScrapeNdbinfoLogspaces" -> ScrapeNdbinfoLogspaces
    [] t = "ScrapeNdbinfoLogbuffers" -> ScrapeNdbinfoLogbuffers
    [] t = "ScrapeNdbinfoClusterOperations" -> ScrapeNdbinfoClusterOperations
    [] t = "ScrapeNdbinfoClusterTransactions" -> ScrapeNdbinfoClusterTransactions
    [] t = "ScrapeNdbinfoCountersSPJ" -> ScrapeNdbinfoCountersSPJ
    [] t = "ScrapeNdbinfoProcesses" -> ScrapeNdbinfoProcesses
    [] t = "ScrapeNdbinfoMemoryusage" -> ScrapeNdbinfoMemoryusage
    [] t = "ScrapeNdbinfoResources" -> ScrapeNdbinfoResources
    [] t = "ScrapeNdbinfoFreeMemory" -> ScrapeNdbinfoFreeMemory
    [] t = "ScrapeNdbinfoTransporters" -> ScrapeNdbinfoTransporters
    [] t = "ScrapeNdbinfoDiskpagebuffers" -> ScrapeNdbinfoDiskpagebuffers
    [] t = "ScrapeNdbinfoDiskWriteSpeedAggregate" -> ScrapeNdbinfoDiskWriteSpeedAggregate
    [] t = "ScrapeNdbinfoPgmanTimeTrack" -> ScrapeNdbinfoPgmanTimeTrack
    [] t = "ScrapeNdbinfoTcTimeTrack" -> ScrapeNdbinfoTcTimeTrack
    [] t = "ScrapeNdbinfoThreadstat" -> ScrapeNdbinfoThreadstat

\* the body of the row loop of query q of scraper t, on the scanned variables v
LoopBody(t, q, v) ==
  CASE t = "ScrapeFiles" -> ScrapeFilesBody(q, v)
    [] t = "ScrapeNdbinfoClusterLocks" -> ScrapeNdbinfoClusterLocksBody(q, v)
    [] t = "ScrapeNdbinfoLogspaces" -> ScrapeNdbinfoLogspacesBody(q, v)
    [] t = "ScrapeNdbinfoLogbuffers" -> ScrapeNdbinfoLogbuffersBody(q, v)
    [] t = "ScrapeNdbinfoClusterOperations" -> ScrapeNdbinfoClusterOperationsBody(q, v)
    [] t = "ScrapeNdbinfoClusterTransactions" -> ScrapeNdbinfoClusterTransactionsBody(q, v)
    [] t = "ScrapeNdbinfoCountersSPJ" -> ScrapeNdbinfoCountersSPJBody(q, v)
    [] t = "ScrapeNdbinfoProcesses" -> ScrapeNdbinfoProcessesBody(q, v)
    [] t = "ScrapeNdbinfoMemoryusage" -> ScrapeNdbinfoMemoryusageBody(q, v)
    [] t = "ScrapeNdbinfoResources" -> ScrapeNdbinfoResourcesBody(q, v)
    [] t = "ScrapeNdbinfoFreeMemory" -> ScrapeNdbinfoFreeMemoryBody(q, v)
    [] t = "ScrapeNdbinfoTransporters" -> ScrapeNdbinfoTransportersBody(q, v)
    [] t = "ScrapeNdbinfoDiskpagebuffers" -> ScrapeNdbinfoDiskpagebuffersBody(q, v)
    [] t = "ScrapeNdbinfoDiskWriteSpeedAggregate" ->
         ScrapeNdbinfoDiskWriteSpeedAggregateBody(q, v)
    [] t = "ScrapeNdbinfoPgmanTimeTrack" -> ScrapeNdbinfoPgmanTimeTrackBody(q, v)
    [] t = "ScrapeNdbinfoTcTimeTrack" -> ScrapeNdbinfoTcTimeTrackBody(q, v)
    [] t = "ScrapeNdbinfoThreadstat" -> ScrapeNdbinfoThreadstatBody(q, v)

\* every scraper with the minimum version 5.1 (a variant of Version)
VersionLowest(t) == 51

\* the scraper named after the table of its first query (a variant of Name)
NameOfTable(t) == Scraper(t).queries[1].from

Name(t)    == Scraper(t).name
Version(t) == Scraper(t).version

\* the variables Scrape declares for its Scan calls, at their zero values
Locals(t) ==
  LET ds == Scraper(t).dests
      all == UNION {{ds[q][i] : i \in 1..Len(ds[q])} : q \in 1..Len(ds)}
  IN [n \in {d[1] : d \in all} |->
        ZeroValue((CHOOSE d \in all : d[1] = n)[2])]

(***************************************************************************)
(* The tables the queries read, each with the rows a table of the model is *)
(* drawn from.  A grouped query reads the view of its groups.              *)
(***************************************************************************)
TableNames ==
  {"information_schema.files", "ndbinfo.cluster_locks", "ndbinfo.logspaces",
   "ndbinfo.logbuffers", "ndbinfo.cluster_operations",
   "ndbinfo.cluster_transactions", "ndbinfo.counters", "ndbinfo.processes",
   "ndbinfo.memoryusage", "ndbinfo.resources", "ndbinfo.transporters",
   "ndbinfo.diskpagebuffer", "ndbinfo.disk_write_speed_aggregate",
   "ndbinfo.pgman_time_track_stats", "ndbinfo.tc_time_track_stats",
   "ndbinfo.threadstat"}

Columns(tbl) ==
  CASE tbl = "information_schema.files" ->
         <<"TABLESPACE_NAME", "LOGFILE_GROUP_NAME", "ENGINE", "FILE_TYPE",
           "FILE_NAME", "FREE_EXTENTS", "TOTAL_EXTENTS", "EXTENT_SIZE",
           "INITIAL_SIZE", "EXTRA">>
    [] tbl = "ndbinfo.resources" ->
         <<"node_id", "resource_name", "reserved", "used">>
    [] tbl = "ndbinfo.memoryusage" ->
         <<"node_id", "memory_type", "used", "used_pages", "total", "total_pages">>
    [] tbl = "ndbinfo.cluster_locks" -> ndbinfoClusterLocksQuery.select
    [] tbl = "ndbinfo.logspaces" -> ndbinfoLogspacesQuery.select
    [] tbl = "ndbinfo.logbuffers" -> ndbinfoLogbuffersQuery.select
    [] tbl = "ndbinfo.cluster_operations" -> ndbinfoClusterOperationsQuery.select
    [] tbl = "ndbinfo.cluster_transactions" -> ndbinfoClusterTransactionsQuery.select
    [] tbl = "ndbinfo.counters" -> ndbinfoCountersSPJQuery.select
    [] tbl = "ndbinfo.processes" -> ndbinfoProcessesQuery.select
    [] tbl = "ndbinfo.transporters" -> ndbinfoTransportersQuery.select
    [] tbl = "ndbinfo.diskpagebuffer" -> ndbinfoDiskpagebuffersQuery.select
    [] tbl = "ndbinfo.disk_write_speed_aggregate" ->
         ndbinfoDiskWriteSpeedAggregateQuery.select
    [] tbl = "ndbinfo.pgman_time_track_stats" -> ndbinfoPgmanTimeTrackQuery.select
    [] tbl = "ndbinfo.tc_time_track_stats" -> ndbinfoTcTimeTrackQuery.select
    [] tbl = "ndbinfo.threadstat" -> ndbinfoThreadstatQuery.select

\* 2^49 pages: 2^64 bytes at 32768 bytes a page
Pages2p49 == IntCol({49})
\* 2^53 + 1 pages: the first page count that is no float64
Pages2p53p1 == IntCol({0, 53})

SampleValues(tbl) ==
  CASE tbl = "information_schema.files" ->
         << <<StrCol("ts_1"), StrCol("lg_1"), StrCol("ndbcluster"),
              StrCol("DATAFILE"), StrCol("data_1.dat"), NatCol(5), NatCol(10),
              NatCol(1048576), NatCol(10485760), StrCol("CLUSTER_NODE=1")>>,
            <<NullCol, StrCol("lg_1"), StrCol("ndbcluster"), StrCol("UNDO LOG"),
              StrCol("undo_1.log"), NullCol, NatCol(20), NatCol(4),
              NatCol(2097152), StrCol("")>>,
            <<StrCol("innodb_system"), NullCol, StrCol("InnoDB"),
              StrCol("TABLESPACE"), StrCol(""), NatCol(2), NatCol(3),
              NatCol(16384), NatCol(49152), StrCol("")>>,
            <<StrCol("innodb_system"), NullCol, StrCol("InnoDB"),
              StrCol("TABLESPACE"), StrCol("./ibdata1"), NatCol(2), NatCol(3),
              NatCol(16384), NatCol(12582912), StrCol("")>> >>
    [] tbl = "ndbinfo.resources" ->
         << <<NatCol(1), StrCol("DATA_MEMORY"), NatCol(100), NatCol(30)>>,
            <<NatCol(1), StrCol("JOBBUFFER"), NatCol(10), NatCol(50)>>,
            <<NatCol(1), StrCol("LONG_SIGNAL_MEMORY"), NatCol(4), NatCol(1)>>,
            <<NatCol(2), StrCol("DISK_RECORDS"), NatCol(2), Pages2p49>>,
            <<NatCol(2), StrCol("TRANSACTION_MEMORY"), Pages2p53p1, NatCol(0)>> >>
    [] tbl = "ndbinfo.memoryusage" ->
         << <<NatCol(1), StrCol("Long message buffer"), NatCol(2560), NatCol(10),
              NatCol(25600), NatCol(100)>>,
            <<NatCol(2), StrCol("Long message buffer"), NatCol(12800), NatCol(50),
              NatCol(2560), NatCol(10)>>,
            <<NatCol(3), StrCol("Long message buffer"), NatCol(128), NullCol,
              NatCol(1024), NatCol(4)>> >>
    [] tbl = "ndbinfo.cluster_locks" ->
         << <<NatCol(1), StrCol("S"), StrCol("H"), StrCol("READ"), NatCol(3),
              DecCol(Bits(12))>>,
            <<NatCol(2), StrCol("X"), StrCol("W"), StrCol("WRITE"), NatCol(1),
              NullCol>> >>
    [] tbl \in {"ndbinfo.logspaces", "ndbinfo.logbuffers"} ->
         << <<NatCol(1), StrCol("REDO"), NatCol(0), NatCol(1000), NatCol(300)>>,
            <<NatCol(12), StrCol("DD-UNDO"), NatCol(10), NullCol, NatCol(0)>> >>
    [] tbl = "ndbinfo.cluster_operations" ->
         << <<NatCol(1), StrCol("READ"), StrCol("Prepared"), NatCol(4)>>,
            <<NatCol(2), NullCol, StrCol("Prepared"), NatCol(1)>>,
            <<NatCol(2), StrCol("SCAN"), NullCol, NatCol(1)>> >>
    [] tbl = "ndbinfo.cluster_transactions" ->
         << <<NatCol(1), StrCol("Started"), NatCol(7)>>,
            <<NatCol(2), NullCol, NatCol(1)>> >>
    [] tbl = "ndbinfo.counters" ->
         << <<NatCol(1), StrCol("READS_RECEIVED"), NatCol(70)>>,
            <<NatCol(2), StrCol("SCAN_ROWS_RETURNED"), NullCol>> >>
    [] tbl = "ndbinfo.processes" ->
         << <<StrCol("NDB"), StrCol("ndbmtd"), NatCol(2)>>,
            <<StrCol("API"), NullCol, NatCol(1)>> >>
    [] tbl = "ndbinfo.transporters" ->
         << <<NatCol(1), NatCol(2), NatCol(5000), NatCol(7000), NatCol(1),
              NatCol(0), NatCol(3), NatCol(1), NatCol(4)>>,
            <<NatCol(2), NatCol(1), NullCol, NatCol(0), NatCol(0), NatCol(1),
              NatCol(0), NatCol(0), NatCol(0)>> >>
    [] tbl = "ndbinfo.diskpagebuffer" ->
         << <<NatCol(1), NatCol(0), NatCol(11), NatCol(12), NatCol(13),
              NatCol(14), NatCol(15), NatCol(16), NatCol(17)>>,
            <<NatCol(2), NatCol(1), NatCol(0), NatCol(0), NullCol, NatCol(0),
              NatCol(0), NatCol(0), NatCol(0)>> >>
    [] tbl = "ndbinfo.disk_write_speed_aggregate" ->
         << <<NatCol(1), NatCol(0), NatCol(21), NatCol(22), NatCol(23),
              NatCol(24)>>,
            <<NatCol(2), NatCol(1), NatCol(0), NullCol, NatCol(0), NatCol(0)>> >>
    [] tbl = "ndbinfo.pgman_time_track_stats" ->
         << <<NatCol(1), NatCol(50), NatCol(31), NatCol(32), NatCol(33),
              DecCol(Bits(34))>>,
            <<NatCol(1), NatCol(100), NatCol(0), NatCol(0), NatCol(0), NullCol>> >>
    [] tbl = "ndbinfo.tc_time_track_stats" ->
         << <<NatCol(1), NatCol(50), NatCol(41), NatCol(42), NatCol(43),
              NatCol(44), NatCol(45)>>,
            <<NatCol(1), NatCol(100), NullCol, NatCol(0), NatCol(0), NatCol(0),
              NatCol(0)>> >>
    [] tbl = "ndbinfo.threadstat" ->
         << <<NatCol(1), NatCol(0), StrCol("main"), StrCol("12"), StrCol("30"),
              StrCol("4"), NatCol(100), NatCol(1000), NatCol(20), NatCol(30),
              NatCol(1), NatCol(0), NatCol(5), NatCol(6)>>,
            <<NatCol(1), NatCol(1), StrCol("rep"), StrCol("7"), StrCol("x"),
              StrCol("9"), NatCol(101), NatCol(1000), NatCol(2), NatCol(3),
              NatCol(0), NatCol(0), NatCol(1), NatCol(1)>>,
            <<NatCol(1), NatCol(2), StrCol("ldm"), StrCol(""), StrCol("5"),
              StrCol("6"), NatCol(103), NatCol(1000), NatCol(2), NatCol(3),
              NatCol(0), NatCol(0), NatCol(1), NatCol(1)>>,
            <<NatCol(1), NatCol(3), StrCol("tc"), StrCol("8"), StrCol("9"),
              StrCol("1x"), NatCol(104), NatCol(1000), NatCol(2), NatCol(3),
              NatCol(0), NatCol(0), NatCol(1), NatCol(1)>>,
            <<NatCol(2), NatCol(0), NullCol, StrCol("1"), StrCol("2"),
              StrCol("3"), NatCol(102), NatCol(1000), NatCol(2), NatCol(3),
              NatCol(0), NatCol(0), NatCol(1), NatCol(1)>> >>

SampleRows(tbl) ==
  [i \in 1..Len(SampleValues(tbl)) |-> Row(Columns(tbl), SampleValues(tbl)[i])]

\* the tables of at most MaxRows sample rows, in the order of their keys
Contents(tbl) ==
  LET n == Len(SampleRows(tbl))
  IN UNION {{[i \in 1..k |-> SampleRows(tbl)[f[i]]] :
               f \in {g \in [1..k -> 1..n] :
                        \A a, b \in 1..k : a < b => g[a] < g[b]}} :
            k \in 0..MaxRows}

RECURSIVE RowCount(_, _)
\* the rows database d holds in the tables of T
RowCount(d, T) ==
  IF T = {} THEN 0
  ELSE LET tbl == CHOOSE x \in T : TRUE
       IN Len(d[tbl]) + RowCount(d, T \ {tbl})

RECURSIVE Databases(_)
\* the databases of at most MaxRows rows in which only the tables of T hold
\* rows
Databases(T) ==
  IF T = {} THEN {[tbl \in TableNames |-> <<>>]}
  ELSE LET tbl  == CHOOSE x \in T : TRUE
           rest == T \ {tbl}
       IN UNION {{[d EXCEPT ![tbl] = c] :
                    c \in {x \in Contents(tbl) :
                             Len(x) + RowCount(d, rest) <= MaxRows}} :
                 d \in Databases(rest)}

\* the tables the scrapers of E read
TablesOf(E) ==
  UNION {{Scraper(t).queries[q].from : q \in 1..Len(Scraper(t).queries)} : t \in E}

\* the descriptors the row loops of Scrape send a metric of, loop by loop, in
\* the order of the sends
EmitOrder(t) ==
  CASE t = "ScrapeFiles" ->
         <<<<infoSchemaTableFilesFreeExtentsDesc,
             infoSchemaTableFilesTotalExtentsDesc,
             infoSchemaTableFilesExtentSizeDesc,
             infoSchemaTableFilesInitialSizeDesc>>>>
    [] t = "ScrapeNdbinfoClusterLocks" ->
         <<<<ndbinfoClusterLocksCountDesc,
             ndbinfoClusterLocksAvgDurationDesc>>>>
    [] t = "ScrapeNdbinfoLogspaces" ->
         <<<<ndbinfoLogspacesUsedDesc, ndbinfoLogspacesTotalDesc>>>>
    [] t = "ScrapeNdbinfoLogbuffers" ->
         <<<<ndbinfoLogbuffersUsedDesc, ndbinfoLogbuffersTotalDesc>>>>
    [] t = "ScrapeNdbinfoClusterOperations" ->
         <<<<ndbinfoClusterOperationsDesc>>>>
    [] t = "ScrapeNdbinfoClusterTransactions" ->
         <<<<ndbinfoClusterTransactionsDesc>>>>
    [] t = "ScrapeNdbinfoCountersSPJ" ->
         <<<<ndbinfoCountersSPJDesc>>>>
    [] t = "ScrapeNdbinfoProcesses" ->
         <<<<ndbinfoProcessesCountDesc>>>>
    [] t = "ScrapeNdbinfoMemoryusage" ->
         <<<<ndbinfoMemoryusageUsedDesc, ndbinfoMemoryusageTotalDesc,
             ndbinfoMemoryusagePagesDesc, ndbinfoMemoryusageTotalPagesDesc>>>>
    [] t = "ScrapeNdbinfoResources" ->
         <<<<ndbinfoResourcesReservedDesc, ndbinfoResourcesUsedDesc>>,
           <<ndbinfoResourcesReservedDesc, ndbinfoResourcesUsedDesc>>>>
    [] t = "ScrapeNdbinfoFreeMemory" ->
         <<<<ndbinfoFreeMemoryDesc>>,
           <<ndbinfoFreeMemoryDesc>>>>
    [] t = "ScrapeNdbinfoTransporters" ->
         <<<<ndbinfoTransportersBytesSentDesc,
             ndbinfoTransportersBytesReceivedDesc,
             ndbinfoTransportersConnectionCountDesc,
             ndbinfoTransportersOverloadedDesc,
             ndbinfoTransportersOverloadedCountDesc,
             ndbinfoTransportersSlowdownDesc,
             ndbinfoTransportersSlowdownCountDesc>>>>
    [] t = "ScrapeNdbinfoDiskpagebuffers" ->
         <<<<ndbinfoDiskpagebuffersPagesWrittenDesc,
             ndbinfoDiskpagebuffersPagesWrittenLcpDesc,
             ndbinfoDiskpagebuffersPagesReadDesc,
             ndbinfoDiskpagebuffersLogWaitsDesc,
             ndbinfoDiskpagebuffersDirectDesc,
             ndbinfoDiskpagebuffersQueueDesc, ndbinfoDiskpagebuffersIODesc>>>>
    [] t = "ScrapeNdbinfoDiskWriteSpeedAggregate" ->
         <<<<ndbinfoDiskWriteSpeedAggregateLcpDesc,
             ndbinfoDiskWriteSpeedAggregateRedoDesc,
             ndbinfoDiskWriteSpeedAggregateIOSlowdownDesc,
             ndbinfoDiskWriteSpeedAggregateCPUSlowdownDesc>>>>
    [] t = "ScrapeNdbinfoPgmanTimeTrack" ->
         <<<<ndbinfoPgmanTimeTrackPageReadsDesc,
             ndbinfoPgmanTimeTrackPageWritesDesc,
             ndbinfoPgmanTimeTrackLogWaitsDesc,
             ndbinfoPgmanTimeTrackGetPageDesc>>>>
    [] t = "ScrapeNdbinfoTcTimeTrack" ->
         <<<<ndbinfoTcTimeTrackScansDesc,
             ndbinfoTcTimeTrackTransactionsDesc,
             ndbinfoTcTimeTrackReadKeyDesc,
             ndbinfoTcTimeTrackWriteKeyDesc, ndbinfoTcTimeTrackIndexKeyDesc>>>>
    [] t = "ScrapeNdbinfoThreadstat" ->
         <<<<ndbinfoThreadstatLoopsDesc, ndbinfoThreadstatExecDesc,
             ndbinfoThreadstatWaitDesc, ndbinfoThreadstatOSTimeDesc,
             ndbinfoThreadstatOSUserTimeDesc,
             ndbinfoThreadstatOSSystemTimeDesc,
             ndbinfoThreadstatSoftPageFaultsDesc,
             ndbinfoThreadstatHardPageFaultsDesc,
             ndbinfoThreadstatVoluntaryCtxSwitchDesc,
             ndbinfoThreadstatInvoluntaryCtxSwitchDesc>>>>

\* the descriptors of scraper t
Descriptors(t) ==
  UNION {{EmitOrder(t)[q][j] : j \in 1..Len(EmitOrder(t)[q])} :
           q \in 1..Len(EmitOrder(t))}

(***************************************************************************)
(* The state: the database, the exporter's scrape cycle and, for every     *)
(* scraper, the call of its Scrape method.                                 *)
(***************************************************************************)
VARIABLES
  tables,       \* the rows of every table
  enabled,      \* the scrapers the exporter is configured with
  cycle,        \* Idle, Selecting, Running or Aggregating
  cycles,       \* the scrape cycles completed
  version,      \* the server version detected in this cycle, in tenths
  selected,     \* the scrapers that run in this cycle
  ctxDone,      \* ctx is cancelled
  receiving,    \* the consumer of ch still receives
  out,          \* the metrics received from ch in this cycle
  errs,         \* the error recorded for every scraper of this cycle
  invocations,  \* how often Scrape was called, by scraper
  panicked,     \* a call of MustNewConstMetric panicked
  proc,         \* the call of Scrape, by scraper
  last          \* what the latest undisturbed call of Scrape sent, by scraper

vars == <<tables, enabled, cycle, cycles, version, selected, ctxDone,
          receiving, out, errs, invocations, panicked, proc, last>>

\* the server versions a cycle detects: 5.1, 5.6 and 5.7
DetectedVersions == {51, 56, 57}

\* the configurations of the exporter: one scraper, or two
EnabledSets ==
  {{t} : t \in ScraperTypes}
    \cup {{"ScrapeNdbinfoProcesses", "ScrapeNdbinfoPgmanTimeTrack"},
          {"ScrapeNdbinfoClusterTransactions", "ScrapeNdbinfoCountersSPJ"}}

\* a scraper that is not running
NotCalled ==
  [pc |-> "idle", q |-> 0, i |-> 0, v |-> <<>>, pending |-> <<>>,
   fail |-> FALSE, cursors |-> <<>>, read |-> <<>>, ret |-> "none"]

\* the entry of Scrape: the local variables hold their zero values; read
\* counts the rows fetched, query by query
Called(t) ==
  [pc |-> "query", q |-> 1, i |-> 0, v |-> Locals(t), pending |-> <<>>,
   fail |-> FALSE, cursors |-> <<>>, read |-> <<>>, ret |-> "none"]

\* the samples received in this cycle
Samples == {out[k] : k \in DOMAIN out}

\* the samples scraper t sent in this cycle, in order
SamplesOf(t) == SelectSeq(out, LAMBDA s : s.scraper = t)

\* no query of the call failed and no cursor of it was cut short
Undisturbed(t) ==
  /\ proc[t].ret # "query"
  /\ \A k \in DOMAIN proc[t].cursors : ~proc[t].cursors[k].err

\* what the calls of Scrape that end with this cycle leave behind
Recorded ==
  [t \in ScraperTypes |->
     IF t \in selected /\ proc[t].pc = "returned" /\ Undisturbed(t)
       THEN [seen |-> TRUE, samples |-> SamplesOf(t)]
       ELSE last[t]]

\* the scrapers of E whose minimum version the server has
Applicable(E, ver) == {t \in E : Version(t) <= ver}

Init ==
  /\ enabled \in EnabledSets
  /\ tables \in Databases(TablesOf(enabled))
  /\ cycle = "Idle"
  /\ cycles = 0
  /\ version = 0
  /\ selected = {}
  /\ ctxDone = FALSE
  /\ receiving = TRUE
  /\ out = <<>>
  /\ errs = [t \in ScraperTypes |-> "none"]
  /\ invocations = [t \in ScraperTypes |-> 0]
  /\ panicked = FALSE
  /\ proc = [t \in ScraperTypes |-> NotCalled]
  /\ last = [t \in ScraperTypes |-> [seen |-> FALSE, samples |-> <<>>]]

(***************************************************************************)
(* The scrape cycle of the exporter.                                       *)
(***************************************************************************)
\* a scrape request that is taken up while a cycle runs (a variant of
\* StartCycle)
StartCycleAnyTime ==
  /\ cycle \in {"Idle", "Running"}
  /\ cycles < MaxCycles
  /\ cycle' = "Selecting"
  /\ version' \in DetectedVersions
  /\ ctxDone' = FALSE
  /\ receiving' = TRUE
  /\ out' = <<>>
  /\ errs' = [t \in ScraperTypes |-> "none"]
  /\ selected' = {}
  /\ proc' = [t \in ScraperTypes |-> NotCalled]
  /\ UNCHANGED <<tables, enabled, cycles, invocations, panicked, last>>

\* a scrape request arrives: the cycle detects the server version
StartCycle ==
  /\ cycle = "Idle"
  /\ cycles < MaxCycles
  /\ cycle' = "Selecting"
  /\ version' \in DetectedVersions
  /\ ctxDone' = FALSE
  /\ receiving' = TRUE
  /\ out' = <<>>
  /\ errs' = [t \in ScraperTypes |-> "none"]
  /\ selected' = {}
  /\ proc' = [t \in ScraperTypes |-> NotCalled]
  /\ UNCHANGED <<tables, enabled, cycles, invocations, panicked, last>>

\* the applicable scrapers are launched, each in its own goroutine
Select ==
  /\ cycle = "Selecting"
  /\ cycle' = "Running"
  /\ selected' = Applicable(enabled, version)
  /\ proc' = [t \in ScraperTypes |->
                IF t \in Applicable(enabled, version) THEN Called(t) ELSE NotCalled]
  /\ invocations' = [t \in ScraperTypes |->
                       IF t \in Applicable(enabled, version)
                         THEN invocations[t] + 1 ELSE invocations[t]]
  /\ UNCHANGED <<tables, enabled, cycles, version, ctxDone, receiving, out, errs,
                 panicked, last>>

\* the scrape request is cancelled, or its deadline passes
Cancel ==
  /\ cycle = "Running"
  /\ ~ctxDone
  /\ ctxDone' = TRUE
  /\ UNCHANGED <<tables, enabled, cycle, cycles, version, selected, receiving,
                 out, errs, invocations, panicked, proc, last>>

\* after the cancellation the consumer stops receiving from ch
ConsumerStops ==
  /\ cycle = "Running"
  /\ ctxDone
  /\ receiving
  /\ receiving' = FALSE
  /\ UNCHANGED <<tables, enabled, cycle, cycles, version, selected, ctxDone,
                 out, errs, invocations, panicked, proc, last>>

\* the cycle ends with the first scraper that returns an error (a variant of
\* Wait)
WaitUntilFirstError ==
  /\ cycle = "Running"
  /\ \/ \A t \in selected : proc[t].pc = "returned"
     \/ \E t \in selected : proc[t].pc = "returned" /\ proc[t].ret # "nil"
  /\ cycle' = "Aggregating"
  /\ errs' = [t \in ScraperTypes |-> IF t \in selected THEN proc[t].ret ELSE "none"]
  /\ last' = Recorded
  /\ UNCHANGED <<tables, enabled, cycles, version, selected, ctxDone, receiving,
                 out, invocations, panicked, proc>>

\* every scraper of the cycle has returned: its error is recorded
Wait ==
  /\ cycle = "Running"
  /\ \A t \in selected : proc[t].pc = "returned"
  /\ cycle' = "Aggregating"
  /\ errs' = [t \in ScraperTypes |-> IF t \in selected THEN proc[t].ret ELSE "none"]
  /\ last' = Recorded
  /\ UNCHANGED <<tables, enabled, cycles, version, selected, ctxDone, receiving,
                 out, invocations, panicked, proc>>

\* the cycle publishes its metrics and is idle again
Finish ==
  /\ cycle = "Aggregating"
  /\ cycle' = "Idle"
  /\ cycles' = cycles + 1
  /\ UNCHANGED <<tables, enabled, version, selected, ctxDone, receiving, out,
                 errs, invocations, panicked, proc, last>>

(***************************************************************************)
(* The steps of a call of Scrape.                                          *)
(***************************************************************************)
\* a Close deferred for the first cursor only (a variant of DeferredClose)
DeferredCloseFirst(cursors) ==
  [k \in DOMAIN cursors |-> IF k = 1 THEN [cursors[k] EXCEPT !.open = FALSE]
                                     ELSE cursors[k]]

\* the deferred rows.Close() of every cursor the call opened
DeferredClose(cursors) ==
  [k \in DOMAIN cursors |-> [cursors[k] EXCEPT !.open = FALSE]]

\* return e: the deferred calls run
Return(p, e) ==
  [p EXCEPT !.pc = "returned", !.ret = e, !.pending = <<>>,
            !.cursors = DeferredClose(p.cursors)]

\* a Rows.Next that returns false and leaves the cursor open (a variant of
\* CloseCursor)
KeepCursor(p, err) == p

\* Rows.Next closes the cursor when it returns false
CloseCursor(p, err) ==
  [p EXCEPT !.cursors[Len(p.cursors)] = [open |-> FALSE, err |-> err]]

\* a return right after the first row loop (a variant of AfterLoop)
AfterLoopReturn(t, p) ==
  [p EXCEPT !.pc = "returned", !.ret = "nil", !.pending = <<>>,
            !.cursors = [k \in DOMAIN p.cursors |-> [p.cursors[k] EXCEPT !.open = FALSE]]]

\* the row loop is left: the next query follows, or return nil
\* a row loop after which the call runs its last query once more (a variant
\* of AfterLoop)
AfterLoopAgain(t, p) ==
  IF p.q < Len(Scraper(t).queries)
    THEN [p EXCEPT !.pc = "query", !.q = p.q + 1, !.i = 0]
  ELSE IF Len(p.cursors) = Len(Scraper(t).queries)
    THEN [p EXCEPT !.pc = "query", !.i = 0]
    ELSE Return(p, "nil")

AfterLoop(t, p) ==
  IF p.q < Len(Scraper(t).queries)
    THEN [p EXCEPT !.pc = "query", !.q = p.q + 1, !.i = 0]
    ELSE Return(p, "nil")

\* a database handle on which a query returns no row while another scraper
\* holds a cursor (a variant of Result)
ResultWhenAlone(t, q) ==
  IF \E u \in ScraperTypes \ {t} :
       \E k \in DOMAIN proc[u].cursors : proc[u].cursors[k].open
    THEN <<>>
    ELSE Evaluate(Scraper(t).queries[q], tables)

\* the rows of the q-th query of scraper t
Result(t, q) == Evaluate(Scraper(t).queries[q], tables)

\* a row loop that goes on with the next row when Scan fails (a variant of
\* LoopPass)
LoopPassSkip(t, p, row) ==
  LET s  == Scan(Scraper(t).dests[p.q], row, p.v)
      p1 == [p EXCEPT !.v = s.loc]
      b  == LoopBody(t, p.q, s.loc)
  IN IF s.err THEN p1
     ELSE IF b.emits = <<>>
       THEN (IF b.err THEN Return(p1, "parse") ELSE p1)
     ELSE [p1 EXCEPT !.pc = "send", !.pending = b.emits, !.fail = b.err]

\* a row loop that sends the metrics of a row before it looks at the error
\* of Scan (a variant of LoopPass)
LoopPassSendFirst(t, p, row) ==
  LET s  == Scan(Scraper(t).dests[p.q], row, p.v)
      p1 == [p EXCEPT !.v = s.loc]
      b  == LoopBody(t, p.q, s.loc)
  IN IF b.emits = <<>>
       THEN (IF s.err THEN Return(p1, "scan")
             ELSE IF b.err THEN Return(p1, "parse") ELSE p1)
     ELSE [p1 EXCEPT !.pc = "send", !.pending = b.emits,
                     !.fail = (s.err \/ b.err)]

\* one pass of the row loop: Scan, then the body
LoopPass(t, p, row) ==
  LET s  == Scan(Scraper(t).dests[p.q], row, p.v)
      p1 == [p EXCEPT !.v = s.loc]
      b  == LoopBody(t, p.q, s.loc)
  IN IF s.err THEN Return(p1, "scan")
     ELSE IF b.emits = <<>>
       THEN (IF b.err THEN Return(p1, "parse") ELSE p1)
     ELSE [p1 EXCEPT !.pc = "send", !.pending = b.emits, !.fail = b.err]

\* a metric whose value is kept from the scraper's first call on (a variant
\* of Sample)
SampleOfFirstCall(t, p, m) ==
  [scraper |-> t, q |-> p.q, row |-> p.i, desc |-> m.desc, kind |-> m.kind,
   value |-> IF invocations[t] > 1 THEN {} ELSE m.value, labels |-> m.labels]

\* the metric as the consumer receives it
Sample(t, p, m) ==
  [scraper |-> t, q |-> p.q, row |-> p.i, desc |-> m.desc, kind |-> m.kind,
   value |-> m.value, labels |-> m.labels]

\* db.QueryContext(ctx, query): an error, also when ctx is cancelled, is
\* returned; else the cursor is open and its Close is deferred
QueryContext(t) ==
  /\ cycle = "Running"
  /\ proc[t].pc = "query"
  /\ \/ proc' = [proc EXCEPT ![t] = Return(@, "query")]
     \/ /\ ~ctxDone
        /\ proc' = [proc EXCEPT ![t] =
                      [@ EXCEPT !.pc = "next", !.i = 0,
                                !.cursors = Append(@, [open |-> TRUE, err |-> FALSE]),
                                !.read = Append(@, 0)]]
  /\ UNCHANGED <<tables, enabled, cycle, cycles, version, selected, ctxDone,
                 receiving, out, errs, invocations, panicked, last>>

\* for rows.Next() { rows.Scan(...); ... }: the loop ends when the cursor is
\* closed, fails or is exhausted, and nobody reads rows.Err()
RowsNext(t) ==
  /\ cycle = "Running"
  /\ proc[t].pc = "next"
  /\ LET p   == proc[t]
         res == Result(t, p.q)
     IN IF ~p.cursors[Len(p.cursors)].open
          THEN proc' = [proc EXCEPT ![t] = AfterLoop(t, p)]
          ELSE \/ proc' = [proc EXCEPT ![t] = AfterLoop(t, CloseCursor(p, TRUE))]
               \/ proc' = [proc EXCEPT ![t] =
                             IF p.i < Len(res)
                               THEN LoopPass(t, [p EXCEPT !.i = p.i + 1,
                                                          !.read[p.q] = @ + 1],
                                             res[p.i + 1])
                               ELSE AfterLoop(t, CloseCursor(p, FALSE))]
  /\ UNCHANGED <<tables, enabled, cycle, cycles, version, selected, ctxDone,
                 receiving, out, errs, invocations, panicked, last>>

\* ch <- prometheus.MustNewConstMetric(...): the send waits for the consumer
Send(t) ==
  /\ cycle = "Running"
  /\ proc[t].pc = "send"
  /\ LET p == proc[t]
         m == Head(p.pending)
     IN IF m.panic
          THEN /\ panicked' = TRUE
               /\ proc' = [proc EXCEPT ![t] =
                             [p EXCEPT !.pc = "panic",
                                       !.cursors = DeferredClose(p.cursors)]]
               /\ UNCHANGED out
          ELSE /\ receiving
               /\ out' = Append(out, Sample(t, p, m))
               /\ proc' = [proc EXCEPT ![t] =
                             IF Len(p.pending) > 1
                               THEN [p EXCEPT !.pending = Tail(p.pending)]
                             ELSE IF p.fail THEN Return(p, "parse")
                             ELSE [p EXCEPT !.pc = "next", !.pending = <<>>]]
               /\ UNCHANGED panicked
  /\ UNCHANGED <<tables, enabled, cycle, cycles, version, selected, ctxDone,
                 receiving, errs, invocations, last>>

\* database/sql closes the cursor of a query whose ctx is cancelled
AwaitDone(t) ==
  /\ cycle = "Running"
  /\ ctxDone
  /\ \E k \in DOMAIN proc[t].cursors :
       /\ proc[t].cursors[k].open
       /\ proc' = [proc EXCEPT ![t].cursors[k] = [open |-> FALSE, err |-> TRUE]]
  /\ UNCHANGED <<tables, enabled, cycle, cycles, version, selected, ctxDone,
                 receiving, out, errs, invocations, panicked, last>>

Next ==
  \/ StartCycle
  \/ Select
  \/ Cancel
  \/ ConsumerStops
  \/ Wait
  \/ Finish
  \/ \E t \in ScraperTypes : QueryContext(t)
  \/ \E t \in ScraperTypes : RowsNext(t)
  \/ \E t \in ScraperTypes : Send(t)
  \/ \E t \in ScraperTypes : AwaitDone(t)

Spec == Init /\ [][Next]_vars

\* the configurations of the behaviours checked for progress
InitFair ==
  /\ Init
  /\ enabled \in {{t} : t \in ScraperTypes}

\* a goroutine that can take a step takes it, and so does the cycle; the
\* scrape requests, the cancellation and the consumer's stop are the
\* environment's
SpecFair ==
  /\ InitFair
  /\ [][Next]_vars
  /\ \A t \in ScraperTypes :
       /\ WF_vars(QueryContext(t))
       /\ WF_vars(RowsNext(t))
       /\ WF_vars(Send(t))
       /\ WF_vars(AwaitDone(t))
  /\ WF_vars(Select)
  /\ WF_vars(Wait)
  /\ WF_vars(Finish)

(***************************************************************************)
(* Properties.                                                             *)
(***************************************************************************)
\* the result row a sample was made from
RowOf(s) == Result(s.scraper, s.q)[s.row]

\* C1: once Scrape has returned, on whatever path, no cursor the call opened
\* is still open; for the two-query scrapers this covers both cursors.
C1_CursorsClosedOnReturn ==
  \A t \in ScraperTypes :
    proc[t].pc = "returned" =>
      \A k \in DOMAIN proc[t].cursors : ~proc[t].cursors[k].open

\* a two-query scraper has returned a decode error of its second loop
C1_SecondLoopErrorReturned ==
  LET p == proc["ScrapeNdbinfoResources"]
  IN p.pc = "returned" /\ p.ret = "scan" /\ p.q = 2 /\ Len(p.cursors) = 2

\* the pages and the page size a free_memory sample is made from
FreeMemoryPages(s) ==
  IF s.q = 1
    THEN [a |-> RowOf(s)[3].v, b |-> RowOf(s)[4].v, size |-> 32768]
    ELSE [a |-> RowOf(s)[3].v, b |-> RowOf(s)[2].v, size |-> 256]

\* max(0, a - b)
MaxZeroDiff(a, b) == IF Geq(a, b) THEN SubWrap(a, b) ELSE {}

\* C2 (as amended): every free_memory sample is the float64 nearest to
\* max(0, reserved - used) x 32768 (rows of ndbinfo.resources) or to
\* max(0, total_pages - used_pages) x 256 (long message buffer); it is that
\* product itself whenever the free page count is below 2^53.
C2_FreeMemoryClampedAndScaled ==
  \A s \in Samples :
    s.scraper = "ScrapeNdbinfoFreeMemory" =>
      LET r    == FreeMemoryPages(s)
          free == MaxZeroDiff(r.a, r.b)
      IN /\ Geq(r.a, r.b) => Add(free, r.b) = r.a
         /\ s.value = RoundToFloat64(Mul(free, r.size))
         /\ (free = {} \/ MaxBit(free) < 53) => s.value = Mul(free, r.size)

\* C2 (as stated): every free_memory sample is exactly
\* max(0, reserved - used) x 32768, or max(0, total_pages - used_pages) x 256.
C2_FreeMemoryExactProduct ==
  \A s \in Samples :
    s.scraper = "ScrapeNdbinfoFreeMemory" =>
      LET r == FreeMemoryPages(s)
      IN s.value = Mul(MaxZeroDiff(r.a, r.b), r.size)

\* free_memory samples of a row with reserved < used and of a long message
\* buffer row with total_pages < used_pages have been received, both zero
C2_ClampedSamplesSent ==
  \E s1, s2 \in Samples :
    /\ s1.scraper = "ScrapeNdbinfoFreeMemory" /\ s1.q = 1
    /\ ~Geq(RowOf(s1)[3].v, RowOf(s1)[4].v) /\ s1.value = {}
    /\ s2.scraper = "ScrapeNdbinfoFreeMemory" /\ s2.q = 2
    /\ ~Geq(RowOf(s2)[3].v, RowOf(s2)[2].v) /\ s2.value = {}

\* C3: for every row of ndbinfo.resources the memory_resource_used sample is
\* used x 32768 and the memory_resource_reserved sample reserved x 32768, as
\* float64, for every 64-bit page count: the product never wraps.
C3_ResourcesBytesNoWrap ==
  \A s \in Samples :
    (s.scraper = "ScrapeNdbinfoResources" /\ s.q = 1) =>
      LET pages == IF s.desc = ndbinfoResourcesUsedDesc
                     THEN RowOf(s)[4].v ELSE RowOf(s)[3].v
      IN s.value = RoundToFloat64(Mul(pages, 32768))

\* the memory_resource_used sample of a row with used = 2^49 pages has been
\* received, and its value is 0
C3_WrappedSampleSent ==
  \E s \in Samples :
    /\ s.scraper = "ScrapeNdbinfoResources" /\ s.q = 1
    /\ s.desc = ndbinfoResourcesUsedDesc
    /\ RowOf(s)[4].v = {49}
    /\ s.value = {}

\* the row of information_schema.files behind the k-th result row
FilesRow(k) ==
  Filter(infoSchemaFilesQuery.where, tables["information_schema.files"])[k]

\* the rows a call of Scrape has fetched and is done with
RowsDone(t) ==
  IF proc[t].pc \in {"next", "returned"} THEN 1..proc[t].i ELSE {}

\* C4: a row of ScrapeFiles whose FREE_EXTENTS is NULL yields no
\* files_free_extents sample, while the files_total_extents, files_extent_size
\* and files_initial_size samples of that row are emitted.
C4_FilesNullFreeExtents ==
  \A k \in RowsDone("ScrapeFiles") :
    FilesRow(k)["FREE_EXTENTS"] = NullCol =>
      /\ ~\E s \in Samples :
            /\ s.scraper = "ScrapeFiles" /\ s.row = k
            /\ s.desc = infoSchemaTableFilesFreeExtentsDesc
      /\ \A d \in {infoSchemaTableFilesTotalExtentsDesc,
                   infoSchemaTableFilesExtentSizeDesc,
                   infoSchemaTableFilesInitialSizeDesc} :
           \E s \in Samples : s.scraper = "ScrapeFiles" /\ s.row = k /\ s.desc = d

\* ScrapeFiles has returned a decode error for a first row whose FREE_EXTENTS
\* is NULL, and no sample of it was received
C4_FilesRowDecodeError ==
  LET p == proc["ScrapeFiles"]
  IN /\ p.pc = "returned" /\ p.ret = "scan" /\ p.i = 1
     /\ FilesRow(1)["FREE_EXTENTS"] = NullCol
     /\ SamplesOf("ScrapeFiles") = <<>>

\* every query of the call has been executed with success
AllQueriesSucceeded(t) == Len(proc[t].cursors) = Len(Scraper(t).queries)

\* C5: when every query of a scraper succeeds and returns no row, Scrape
\* returns nil and sends no sample; in a two-query scraper an empty first
\* result is followed by the second query.
C5_EmptyResultIsSuccess ==
  \A t \in ScraperTypes :
    proc[t].pc = "returned" =>
      /\ (AllQueriesSucceeded(t)
            /\ \A q \in 1..Len(Scraper(t).queries) : Result(t, q) = <<>>)
           => (proc[t].ret = "nil" /\ SamplesOf(t) = <<>>)
      /\ (Len(Scraper(t).queries) = 2 /\ Len(proc[t].cursors) >= 1
            /\ Result(t, 1) = <<>>)
           => (Len(proc[t].cursors) = 2 \/ proc[t].ret = "query")

\* ScrapeNdbinfoFreeMemory has returned nil after two empty results, the
\* first one empty because no row of ndbinfo.resources passes the WHERE
C5_TwoEmptyResultsReturned ==
  LET t == "ScrapeNdbinfoFreeMemory"
  IN /\ proc[t].pc = "returned" /\ proc[t].ret = "nil"
     /\ Len(proc[t].cursors) = 2
     /\ tables["ndbinfo.resources"] # <<>>
     /\ Result(t, 1) = <<>> /\ Result(t, 2) = <<>>
     /\ SamplesOf(t) = <<>>

RECURSIVE RunFrom(_, _, _, _)
\* what a call of Scrape sends and returns from row k of query q on, its
\* locals being v, when every query succeeds and every row is fetched
RunFrom(t, q, k, v) ==
  IF q > Len(Scraper(t).queries) THEN [samples |-> <<>>, ret |-> "nil"]
  ELSE IF k > Len(Result(t, q)) THEN RunFrom(t, q + 1, 1, v)
  ELSE LET s    == Scan(Scraper(t).dests[q], Result(t, q)[k], v)
           b    == LoopBody(t, q, s.loc)
           here == [j \in 1..Len(b.emits) |->
                      Sample(t, [q |-> q, i |-> k], b.emits[j])]
           rest == RunFrom(t, q, k + 1, s.loc)
       IN IF s.err THEN [samples |-> <<>>, ret |-> "scan"]
          ELSE IF b.err THEN [samples |-> here, ret |-> "parse"]
          ELSE [samples |-> here \o rest.samples, ret |-> rest.ret]

\* the undisturbed call of Scrape on the tables
FullRun(t) == RunFrom(t, 1, 1, Locals(t))

\* C6: when the cycle aggregates, every selected scraper was executed and has
\* returned, its error or nil is recorded, the process has not died, and every
\* scraper left undisturbed has all of its samples in the cycle's output,
\* whatever the other scrapers of the cycle returned.
C6_PartialFailureIsolation ==
  cycle = "Aggregating" =>
    /\ ~panicked
    /\ \A u \in selected :
         /\ proc[u].pc = "returned"
         /\ invocations[u] >= 1
         /\ errs[u] = proc[u].ret
         /\ Undisturbed(u) =>
              (SamplesOf(u) = FullRun(u).samples /\ errs[u] = FullRun(u).ret)

\* a cycle aggregates in which one scraper failed and another one returned
\* nil with samples in the output
C6_OneFailedOtherDelivered ==
  /\ cycle = "Aggregating"
  /\ \E t, u \in selected :
       /\ t # u
       /\ errs[t] \in {"query", "scan"}
       /\ errs[u] = "nil" /\ Undisturbed(u)
       /\ SamplesOf(u) # <<>>

\* the names of the scrapers with the minimum version 5.7
Names57 ==
  {"ndbinfo.resources", "ndbinfo.resources.free",
   "ndbinfo.pgman_time_track_stats", "ndbinfo.tc_time_track_stats"}

\* C7: in a cycle with detected version v exactly the enabled scrapers with
\* Version() <= v run; a scraper that is not selected is not called, sends no
\* sample and records no error.  With version 5.6 the four scrapers of 5.7
\* are excluded and every other enabled scraper is selected.
C7_VersionGating ==
  cycle \in {"Running", "Aggregating"} =>
    /\ \A t \in enabled : t \in selected <=> Version(t) <= version
    /\ selected \subseteq enabled
    /\ \A t \in ScraperTypes \ selected :
         proc[t] = NotCalled /\ SamplesOf(t) = <<>> /\ errs[t] = "none"
    /\ \A t \in selected : proc[t].pc # "idle"
    /\ version = 56 =>
         \A t \in enabled : t \in selected <=> Name(t) \notin Names57

\* with version 5.6 and two scrapers enabled, one of 5.6 and one of 5.7, the
\* first one runs alone
C7_Version56Excludes57 ==
  /\ cycle = "Running"
  /\ version = 56
  /\ enabled = {"ScrapeNdbinfoProcesses", "ScrapeNdbinfoPgmanTimeTrack"}
  /\ selected = {"ScrapeNdbinfoProcesses"}
  /\ invocations["ScrapeNdbinfoPgmanTimeTrack"] = 0
  /\ SamplesOf("ScrapeNdbinfoProcesses") # <<>>

\* C8: whenever ctx is cancelled while scrapers run, every one of them
\* eventually returns, also when the consumer has stopped receiving.
C8_CancelledScrapeReturns ==
  (cycle = "Running" /\ ctxDone)
    ~> (\A t \in selected : proc[t].pc = "returned")

\* ctx is cancelled, the consumer has stopped and a scraper waits in a send,
\* its cursor closed
C8_SendBlockedAfterCancel ==
  \E t \in selected :
    /\ ctxDone /\ ~receiving
    /\ proc[t].pc = "send"
    /\ \A k \in DOMAIN proc[t].cursors : ~proc[t].cursors[k].open

\* the text of a column as a label value
ColumnText(col) == IF col.k = "int" THEN FormatUint(col.v) ELSE col.v

\* C9: every sample carries as many label values as its descriptor declares
\* label names, in the order of the names (the j-th value is the j-th column
\* of the row, or the fixed memory type of the long message buffer), and no
\* call of MustNewConstMetric panics.
C9_LabelArity ==
  /\ ~panicked
  /\ \A s \in Samples :
       /\ Len(s.labels) = Len(s.desc.variableLabels)
       /\ s.scraper # "ScrapeFiles" =>
            \A j \in 1..Len(s.labels) :
              s.labels[j] =
                IF s.q = 2 /\ j = 2 THEN "LONG_SIGNAL_MEMORY"
                ELSE ColumnText(RowOf(s)[j])

\* a sample of four labels, those of its row, has been received
C9_FourLabelSampleSent ==
  \E s \in Samples :
    /\ s.scraper = "ScrapeNdbinfoClusterLocks"
    /\ s.desc = ndbinfoClusterLocksCountDesc
    /\ s.labels = <<"1", "S", "H", "READ">>

\* C10: of every row of ndbinfo.transporters the overloaded and the slowdown
\* flag samples have kind gauge and the five lifetime totals kind counter.
C10_TransportersFlagKinds ==
  \A s \in Samples :
    s.scraper = "ScrapeNdbinfoTransporters" =>
      IF s.desc \in {ndbinfoTransportersOverloadedDesc,
                     ndbinfoTransportersSlowdownDesc}
        THEN s.kind = "gauge"
        ELSE s.kind = "counter"

\* the slowdown flag of a row has been received as a counter
C10_SlowdownFlagSentAsCounter ==
  \E s \in Samples :
    /\ s.scraper = "ScrapeNdbinfoTransporters"
    /\ s.desc = ndbinfoTransportersSlowdownDesc
    /\ s.kind = "counter"

\* C11: the DBSPJ event counters that ScrapeNdbinfoCountersSPJ reads from
\* ndbinfo.counters, lifetime totals, are emitted with kind counter.
C11_SPJCountersAreCounters ==
  \A s \in Samples :
    s.scraper = "ScrapeNdbinfoCountersSPJ" => s.kind = "counter"

\* an spj_counter sample has been received as a gauge
C11_SPJCounterSentAsGauge ==
  \E s \in Samples :
    /\ s.scraper = "ScrapeNdbinfoCountersSPJ"
    /\ s.desc = ndbinfoCountersSPJDesc
    /\ s.kind = "gauge"

\* the rows the call of Scrape has fetched, over all of its queries
RowsRead(t) ==
  LET r == proc[t].read
  IN IF r = <<>> THEN 0 ELSE IF Len(r) = 1 THEN r[1] ELSE r[1] + r[2]

\* a row the call of Scrape has fetched holds a NULL
ReadNull(t) ==
  \E q \in DOMAIN proc[t].read : \E k \in 1..proc[t].read[q] :
    \E c \in DOMAIN Result(t, q)[k] : Result(t, q)[k][c] = NullCol

\* C12: when Scrape has returned nil, the samples it sent number at most the
\* rows it fetched times the descriptors of the scraper, and they number
\* exactly that only if no fetched row holds a NULL.
C12_SampleCountBound ==
  \A t \in ScraperTypes :
    (proc[t].pc = "returned" /\ proc[t].ret = "nil") =>
      LET n == Len(SamplesOf(t))
          m == RowsRead(t) * Cardinality(Descriptors(t))
      IN /\ n <= m
         /\ n = m => ~ReadNull(t)

\* ScrapeNdbinfoResources has returned nil after rows of both of its queries,
\* with two samples for every row
C12_ResourcesBothLoopsCounted ==
  LET t == "ScrapeNdbinfoResources"
  IN /\ proc[t].pc = "returned" /\ proc[t].ret = "nil"
     /\ Len(proc[t].read) = 2
     /\ proc[t].read[1] >= 1 /\ proc[t].read[2] >= 1
     /\ Len(SamplesOf(t)) = 2 * RowsRead(t)

\* the descriptor, the label values, the value and the kind of the samples
MetricsOf(samples) ==
  {[desc |-> samples[k].desc, labels |-> samples[k].labels,
    value |-> samples[k].value, kind |-> samples[k].kind] :
     k \in DOMAIN samples}

\* C13: a call of Scrape that starts finds the state of a first call, and
\* an undisturbed call that has returned has sent the same set of samples
\* (descriptor, label values, value, kind) as the scraper's latest
\* undisturbed call of an earlier cycle on the same tables, whatever other
\* scrapers ran in between.
C13_SameSamplesAsEarlierCall ==
  \A t \in ScraperTypes :
    /\ (proc[t].pc = "query" /\ proc[t].q = 1) => proc[t] = Called(t)
    /\ (cycle = "Running" /\ proc[t].pc = "returned" /\ Undisturbed(t)
          /\ last[t].seen)
         => MetricsOf(SamplesOf(t)) = MetricsOf(last[t].samples)

\* the second call of a scraper has returned undisturbed after sending
\* samples, and so had its first call, with another scraper running in both
\* cycles
C13_SecondCallReturned ==
  \E t \in selected :
    /\ cycle = "Running" /\ selected # {t}
    /\ invocations[t] = 2
    /\ proc[t].pc = "returned" /\ Undisturbed(t)
    /\ last[t].seen /\ last[t].samples # <<>>
    /\ SamplesOf(t) # <<>>

\* the place of a sample's descriptor among the sends of its row loop, 0 if
\* the loop does not send it
EmitIndex(s) ==
  LET loop == EmitOrder(s.scraper)[s.q]
  IN IF \E j \in 1..Len(loop) : loop[j] = s.desc
       THEN CHOOSE j \in 1..Len(loop) : loop[j] = s.desc
       ELSE 0

\* sample a is sent before sample b by one call of Scrape
SentBefore(a, b) ==
  \/ a.q < b.q
  \/ a.q = b.q /\ a.row < b.row
  \/ a.q = b.q /\ a.row = b.row /\ EmitIndex(a) < EmitIndex(b)

\* C14: the samples of one scraper are received in the order of the result
\* rows, those of one row in the order of the sends of the row loop, and
\* those of the first query before those of the second: every sample is
\* sent before the one received next (SentBefore is transitive).
C14_SamplesInRowOrder ==
  \A t \in ScraperTypes :
    LET ss == SamplesOf(t)
    IN /\ \A k \in DOMAIN ss : EmitIndex(ss[k]) >= 1
       /\ \A k \in 2..Len(ss) : SentBefore(ss[k - 1], ss[k])

\* ScrapeNdbinfoResources has sent the reserved and the used sample of a row
\* of its first query and then those of a row of its second query
C14_BothLoopsInOrder ==
  LET ss == SamplesOf("ScrapeNdbinfoResources")
  IN /\ Len(ss) = 4
     /\ ss[1].q = 1 /\ ss[2].q = 1 /\ ss[1].row = ss[2].row
     /\ ss[1].desc = ndbinfoResourcesReservedDesc
     /\ ss[2].desc = ndbinfoResourcesUsedDesc
     /\ ss[3].q = 2 /\ ss[4].q = 2
     /\ ss[3].desc = ndbinfoResourcesReservedDesc
     /\ ss[4].desc = ndbinfoResourcesUsedDesc

\* C15: every scrape cycle that has started reaches Idle again, whatever its
\* scrapers return.
C15_CycleReachesIdle == (cycle # "Idle") ~> (cycle = "Idle")

\* the cycle is running, the consumer has stopped, and every scraper that has
\* not returned waits in a send
C15_CycleWaitsOnBlockedSend ==
  /\ cycle = "Running" /\ ~receiving
  /\ \E t \in selected : proc[t].pc = "send"
  /\ \A t \in selected : proc[t].pc \in {"send", "returned"}

\* C16: the 17 scraper types have 17 names: no two of them return the same
\* string from Name(), so the scrapers of a cycle carry as many names as they
\* are.
C16_NamesUnique ==
  /\ Cardinality(ScraperTypes) = 17
  /\ Cardinality({Name(t) : t \in ScraperTypes}) = 17
  /\ Cardinality({Name(t) : t \in selected}) = Cardinality(selected)

\* two scrapers run in one cycle, under different names
C16_TwoNamesInOneCycle ==
  /\ cycle = "Running"
  /\ \E t, u \in selected : t # u /\ Name(t) # Name(u)

\* C17: a call of Scrape whose row loop ended on a fetch error, not on the
\* end of the result, returns an error.
C17_FetchErrorReported ==
  \A t \in ScraperTypes :
    (proc[t].pc = "returned"
       /\ \E k \in DOMAIN proc[t].cursors : proc[t].cursors[k].err)
      => proc[t].ret # "nil"

\* ScrapeNdbinfoLogspaces has returned nil after a fetch error, having sent
\* the samples of the first of two result rows only
C17_TruncatedSuccess ==
  LET t == "ScrapeNdbinfoLogspaces"
  IN /\ proc[t].pc = "returned" /\ proc[t].ret = "nil"
     /\ proc[t].cursors[1].err
     /\ ~ctxDone
     /\ Len(Result(t, 1)) = 2 /\ proc[t].read = <<1>>
     /\ Len(SamplesOf(t)) = 2
     /\ FullRun(t).ret = "scan"

\* rows.Scan fails on the k-th row of the q-th query of scraper t
ScanFails(t, q, k) ==
  Scan(Scraper(t).dests[q], Result(t, q)[k], Locals(t)).err

\* the samples of scraper t made from row k of query q or from a later row
SamplesFrom(t, q, k) ==
  {s \in Samples : s.scraper = t /\ (s.q > q \/ (s.q = q /\ s.row >= k))}

\* C18: a call of Scrape whose first query failed has returned that error,
\* has sent no sample and has opened no cursor; a call that fetched a row on
\* which Scan fails has returned the error of Scan, and no sample of that
\* row or of a later row is sent; a row whose parse fails ends the call
\* likewise, with no sample of a later row.
C18_ErrorsEndTheCall ==
  \A t \in ScraperTypes :
    LET p == proc[t]
    IN /\ (p.pc = "returned" /\ p.ret = "query" /\ p.q = 1)
            => (p.cursors = <<>> /\ SamplesOf(t) = <<>>)
       /\ \A q \in DOMAIN p.read : \A k \in 1..p.read[q] :
            ScanFails(t, q, k)
              => /\ p.pc = "returned" /\ p.ret = "scan"
                 /\ p.q = q /\ p.i = k
                 /\ SamplesFrom(t, q, k) = {}
       /\ (p.pc = "returned" /\ p.ret = "scan") => ScanFails(t, p.q, p.i)
       /\ (p.pc = "returned" /\ p.ret = "parse")
            => SamplesFrom(t, p.q, p.i + 1) = {}

\* ScrapeNdbinfoClusterOperations has returned the error of Scan for the
\* first of two rows, the second of which Scan accepts, and has sent nothing
C18_DecodeErrorBeforeGoodRow ==
  LET t == "ScrapeNdbinfoClusterOperations"
  IN /\ proc[t].pc = "returned" /\ proc[t].ret = "scan"
     /\ proc[t].read = <<1>>
     /\ Len(Result(t, 1)) = 2
     /\ ~ScanFails(t, 1, 2)
     /\ SamplesOf(t) = <<>>

\* the cursors a call of Scrape holds open
OpenCursors(t) == {k \in DOMAIN proc[t].cursors : proc[t].cursors[k].open}

\* C19: a call of Scrape holds at most one open cursor at any time; when a
\* two-query scraper issues its second query, and from then on, the cursor
\* of its first query is closed.
C19_OneOpenCursor ==
  \A t \in ScraperTypes :
    /\ Cardinality(OpenCursors(t)) <= 1
    /\ (proc[t].q = 2 \/ Len(proc[t].cursors) = 2) => 1 \notin OpenCursors(t)

\* ScrapeNdbinfoFreeMemory has consumed the rows of its first query and holds
\* the cursor of its second query, the first one closed
C19_SecondCursorAlone ==
  LET p == proc["ScrapeNdbinfoFreeMemory"]
  IN /\ p.pc = "next" /\ p.q = 2
     /\ Len(p.read) = 2 /\ p.read[1] >= 1
     /\ p.read[1] = Len(Result("ScrapeNdbinfoFreeMemory", 1))
     /\ ~p.cursors[1].open /\ ~p.cursors[1].err
     /\ p.cursors[2].open

\* sequence a is the beginning of sequence b
IsPrefix(a, b) == Len(a) <= Len(b) /\ a = SubSeq(b, 1, Len(a))

\* C20: when two or more scrapers run in one cycle, then at every moment of
\* every interleaving each scraper that is left undisturbed has sent a
\* beginning of the samples it sends when run alone on the same tables, and
\* all of them when it has returned; the scrapers that have not started yet
\* or are not selected are untouched.
C20_NonInterference ==
  (cycle = "Running" /\ Cardinality(selected) >= 2) =>
    /\ \A t \in selected :
         Undisturbed(t) =>
           /\ IsPrefix(SamplesOf(t), FullRun(t).samples)
           /\ proc[t].pc = "returned" => SamplesOf(t) = FullRun(t).samples
           /\ proc[t].pc = "query" /\ proc[t].q = 1 => proc[t] = Called(t)
    /\ \A t \in ScraperTypes \ selected : proc[t] = NotCalled

\* two scrapers run, both have sent samples, the samples of the two are
\* interleaved, and one of them has returned while the other still runs
C20_InterleavedSends ==
  /\ cycle = "Running"
  /\ \E t, u \in selected :
       /\ t # u
       /\ Undisturbed(t) /\ Undisturbed(u)
       /\ proc[t].pc = "returned" /\ proc[u].pc \in {"next", "send"}
       /\ Len(out) >= 3
       /\ out[1].scraper = u /\ out[2].scraper = t /\ out[3].scraper = u

\* the transitions of the cycle
CycleTransitions ==
  {<<"Idle", "Selecting">>, <<"Selecting", "Running">>,
   <<"Running", "Aggregating">>, <<"Aggregating", "Idle">>}

\* C21: the cycle state changes only along Idle -> Selecting -> Running ->
\* Aggregating -> Idle; a step of a call of Scrape leaves it alone and is
\* taken in Running only; a cycle starts from Idle with no call of Scrape
\* in progress, so two cycles never overlap.
C21_CycleOrder ==
  [][/\ cycle' # cycle => <<cycle, cycle'>> \in CycleTransitions
     /\ \A t \in ScraperTypes :
          (proc[t].pc # "idle" /\ proc'[t].pc # "idle" /\ proc'[t] # proc[t])
            => (cycle = "Running" /\ cycle' = cycle)
     /\ cycle' = "Selecting" =>
          /\ \A t \in selected : proc[t].pc = "returned"
          /\ \A t \in ScraperTypes : proc'[t] = NotCalled
     /\ cycles' # cycles =>
          (cycles' = cycles + 1 /\ cycle = "Aggregating" /\ cycle' = "Idle")
    ]_vars

\* a second cycle runs after a first one that was completed
C21_SecondCycleRunning ==
  /\ cycles = 1 /\ cycle = "Running"
  /\ \E t \in selected : invocations[t] = 2 /\ proc[t].pc \in {"next", "send"}

\* the text holds a decimal number
IsNumber(text) ==
  Len(text) > 0 /\ \A i \in 1..Len(text) :
    SubSeq(text, i, i) \in {"0", "1", "2", "3", "4", "5", "6", "7", "8", "9"}

\* the texts c_loop, c_exec and c_wait of the k-th row of ndbinfo.threadstat
CounterTexts(k) ==
  LET row == Result("ScrapeNdbinfoThreadstat", 1)[k]
  IN <<row[4].v, row[5].v, row[6].v>>

\* one of the three texts of row k is no number
Unparseable(k) == \E j \in 1..3 : ~IsNumber(CounterTexts(k)[j])

\* C22: ScrapeNdbinfoThreadstat sends the numbers parsed from the texts
\* c_loop, c_exec and c_wait; a row of which one of the three is no number
\* is the last row the call fetches, and the call returns the parse error.
C22_ThreadstatParseError ==
  LET t == "ScrapeNdbinfoThreadstat"
      p == proc[t]
  IN /\ \A s \in Samples :
          (s.scraper = t /\ EmitIndex(s) <= 3) =>
            /\ IsNumber(CounterTexts(s.row)[EmitIndex(s)])
            /\ s.value = Float64(Bits(ParseNat(CounterTexts(s.row)[EmitIndex(s)], 0)))
     /\ \A q \in DOMAIN p.read : \A k \in 1..p.read[q] :
          (~ScanFails(t, 1, k) /\ Unparseable(k)) =>
            /\ p.i = k
            /\ p.pc \in {"send", "returned"}
            /\ p.pc = "send" => p.fail
            /\ p.pc = "returned" => p.ret = "parse"
     /\ (p.pc = "returned" /\ p.ret = "parse") => Unparseable(p.i)

\* ScrapeNdbinfoThreadstat has returned the parse error of c_wait for the
\* first of two rows, after the loop and the exec sample of that row
C22_WaitTextNotParsed ==
  LET t == "ScrapeNdbinfoThreadstat"
  IN /\ proc[t].pc = "returned" /\ proc[t].ret = "parse"
     /\ proc[t].read = <<1>> /\ Len(Result(t, 1)) = 2
     /\ IsNumber(CounterTexts(1)[1]) /\ IsNumber(CounterTexts(1)[2])
     /\ ~IsNumber(CounterTexts(1)[3])
     /\ Len(SamplesOf(t)) = 2

\* no column of the k-th row of the q-th query of scraper t is NULL
NoNull(t, q, k) ==
  \A c \in DOMAIN Result(t, q)[k] : Result(t, q)[k][c] # NullCol

\* C23: every query of a scraper that runs selects as many columns as the
\* Scan of its row loop has destinations, and Scan accepts every fetched row
\* that holds no NULL; the query of ScrapeFiles selects 10 columns.
C23_ColumnsMatchDestinations ==
  \A t \in selected :
    /\ \A q \in 1..Len(Scraper(t).queries) :
         Len(Scraper(t).queries[q].select) = Len(Scraper(t).dests[q])
    /\ \A q \in DOMAIN proc[t].read : \A k \in 1..proc[t].read[q] :
         NoNull(t, q, k) => ~ScanFails(t, q, k)
    /\ t = "ScrapeFiles" => Len(infoSchemaFilesQuery.select) = 10

\* ScrapeFiles has returned the error of Scan for a row of 9 columns, none
\* of them NULL, that it scans into 10 destinations
C23_FilesNineColumns ==
  LET t == "ScrapeFiles"
  IN /\ proc[t].pc = "returned" /\ proc[t].ret = "scan"
     /\ proc[t].read = <<1>>
     /\ NoNull(t, 1, 1)
     /\ Len(Result(t, 1)[1]) = 9
     /\ Len(Scraper(t).dests[1]) = 10

\* the samples of scraper t made from row k of query q
SamplesOfRow(t, q, k) ==
  {s \in Samples : s.scraper = t /\ s.q = q /\ s.row = k}

\* C24: once a call of Scrape has returned, every row it fetched has all of
\* the samples of its row loop in the output, or none: a threadstat row has
\* 10 samples or 0.
C24_RowAllOrNothing ==
  \A t \in ScraperTypes :
    proc[t].pc = "returned" =>
      \A q \in DOMAIN proc[t].read : \A k \in 1..proc[t].read[q] :
        Cardinality(SamplesOfRow(t, q, k)) \in {0, Len(EmitOrder(t)[q])}

\* ScrapeNdbinfoThreadstat has returned the parse error of c_exec for a row
\* of which the threadstat_loop sample, and no other, is in the output
C24_LoopSampleOfFailedRow ==
  LET t == "ScrapeNdbinfoThreadstat"
      k == proc[t].i
  IN /\ proc[t].pc = "returned" /\ proc[t].ret = "parse"
     /\ ~ctxDone /\ ~proc[t].cursors[1].err
     /\ ~IsNumber(CounterTexts(k)[2])
     /\ \E s \in Samples :
          /\ s.desc = ndbinfoThreadstatLoopsDesc
          /\ SamplesOfRow(t, 1, k) = {s}

\* no cursor of the call was cut short by a fetch error or a cancellation
NoFetchError(t) == \A k \in DOMAIN proc[t].cursors : ~proc[t].cursors[k].err

C26_NoDuplicateSamples ==
  \A i, j \in DOMAIN out :
    (i < j /\ out[i].scraper = out[j].scraper) =>
      ~(out[i].desc = out[j].desc /\ out[i].labels = out[j].labels)

\* ScrapeNdbinfoResources has sent two memory_resource_reserved samples
\* labelled node 1, LONG_SIGNAL_MEMORY: one of a row of ndbinfo.resources,
\* one of the long message buffer, with different values
C26_LongSignalMemoryTwice ==
  \E i, j \in DOMAIN out :
    /\ out[i].scraper = "ScrapeNdbinfoResources" /\ out[i].q = 1
    /\ out[j].scraper = "ScrapeNdbinfoResources" /\ out[j].q = 2
    /\ out[i].desc = ndbinfoResourcesReservedDesc
    /\ out[j].desc = ndbinfoResourcesReservedDesc
    /\ out[i].labels = <<"1", "LONG_SIGNAL_MEMORY">>
    /\ out[j].labels = out[i].labels
    /\ out[i].value # out[j].value


\* the samples ScrapeNdbinfoResources sends on the same tables
ResourcesSamples == FullRun("ScrapeNdbinfoResources").samples

\* C27: on the same tables, every free_memory sample of
\* ScrapeNdbinfoFreeMemory whose node and resource ScrapeNdbinfoResources
\* reports too, the LONG_SIGNAL_MEMORY samples included, has the value
\* max(0, memory_resource_reserved - memory_resource_used) of the two samples
\* ScrapeNdbinfoResources sends for a row with these labels.
C27_FreeIsReservedMinusUsed ==
  \A s \in Samples :
    s.scraper = "ScrapeNdbinfoFreeMemory" =>
      \A i, j \in DOMAIN ResourcesSamples :
        LET r == ResourcesSamples[i]
            u == ResourcesSamples[j]
        IN (/\ r.desc = ndbinfoResourcesReservedDesc
            /\ u.desc = ndbinfoResourcesUsedDesc
            /\ r.q = u.q /\ r.row = u.row
            /\ r.labels = s.labels /\ u.labels = s.labels)
           => s.value = MaxZeroDiff(r.value, u.value)

\* the free_memory sample of TRANSACTION_MEMORY with 2^53 + 1 pages reserved
\* and none used has been received with the value 2^68, where
\* ScrapeNdbinfoResources reports 32768 bytes reserved and 0 used
C27_FreeAboveReserved ==
  \E s \in Samples : \E i \in DOMAIN ResourcesSamples :
    /\ s.scraper = "ScrapeNdbinfoFreeMemory" /\ s.q = 1
    /\ s.labels = <<"2", "TRANSACTION_MEMORY">>
    /\ s.value = {68}
    /\ ResourcesSamples[i].desc = ndbinfoResourcesReservedDesc
    /\ ResourcesSamples[i].labels = s.labels
    /\ ResourcesSamples[i].value = {15}


\* the label columns of information_schema.files that may be NULL, and the
\* place of each in the label values
FilesNullableLabels == {<<"TABLESPACE_NAME", 1>>, <<"LOGFILE_GROUP_NAME", 2>>}

\* C28: a row of ScrapeFiles with a NULL TABLESPACE_NAME or LOGFILE_GROUP_NAME
\* does not end the call with an error and is not left out: its
\* files_total_extents, files_extent_size and files_initial_size samples are
\* sent, and all samples of the row carry "" as that label, not the value of
\* an earlier row.
C28_FilesNullLabelIsEmpty ==
  \A k \in RowsDone("ScrapeFiles") : \A c \in FilesNullableLabels :
    FilesRow(k)[c[1]] = NullCol =>
      /\ ~(proc["ScrapeFiles"].ret = "scan" /\ proc["ScrapeFiles"].i = k)
      /\ \A d \in {infoSchemaTableFilesTotalExtentsDesc,
                   infoSchemaTableFilesExtentSizeDesc,
                   infoSchemaTableFilesInitialSizeDesc} :
           \E s \in SamplesOfRow("ScrapeFiles", 1, k) : s.desc = d
      /\ \A s \in SamplesOfRow("ScrapeFiles", 1, k) : s.labels[c[2]] = ""

\* ScrapeFiles has returned the decode error of a row whose
\* LOGFILE_GROUP_NAME is NULL and whose FREE_EXTENTS is not, and the row has
\* no sample
C28_NullLogfileGroupRowFails ==
  LET p == proc["ScrapeFiles"]
  IN /\ p.pc = "returned" /\ p.ret = "scan" /\ p.i \in RowsDone("ScrapeFiles")
     /\ FilesRow(p.i)["LOGFILE_GROUP_NAME"] = NullCol
     /\ FilesRow(p.i)["FREE_EXTENTS"] # NullCol
     /\ SamplesOfRow("ScrapeFiles", 1, p.i) = {}


\* the queries a call of Scrape has issued so far: those that opened a cursor
\* and the one that failed
QueriesIssued(t) ==
  Len(proc[t].cursors) + (IF proc[t].ret = "query" THEN 1 ELSE 0)

\* C29: a call of Scrape issues each of its queries at most once (one query,
\* two for ndbinfo.resources and ndbinfo.resources.free) and fetches no more
\* rows from a cursor than the result has; and as long as the consumer
\* receives the samples sent, all calls of a running cycle return.
C29_ScrapeTerminates ==
  /\ [](\A t \in selected :
          /\ QueriesIssued(t) <= Len(Scraper(t).queries)
          /\ Len(Scraper(t).queries) =
               (IF Name(t) \in {"ndbinfo.resources", "ndbinfo.resources.free"}
                  THEN 2 ELSE 1)
          /\ Len(proc[t].read) = Len(proc[t].cursors)
          /\ \A q \in DOMAIN proc[t].read :
               proc[t].read[q] <= Len(Result(t, q)))
  /\ (cycle = "Running")
       ~> ((\A t \in selected : proc[t].pc = "returned") \/ ~receiving)

\* ScrapeNdbinfoFreeMemory has returned nil to a consumer that still
\* receives, after two queries and a row of each, both sent as samples
C29_BothResultsReadOnce ==
  LET t == "ScrapeNdbinfoFreeMemory"
  IN /\ t \in selected /\ receiving
     /\ proc[t].pc = "returned" /\ proc[t].ret = "nil"
     /\ QueriesIssued(t) = 2
     /\ proc[t].read = <<1, 1>>
     /\ Len(Result(t, 1)) = 1 /\ Len(Result(t, 2)) = 1
     /\ Len(SamplesOf(t)) = 2

====
